---- MODULE Spec2Model ----
(***************************************************************************)
(* A model of the goal/task orchestrator GoalAgent of                      *)
(* servers/goal_agent_server.py: the in-memory dictionaries of goals and   *)
(* tasks, the two id counters, the full-state snapshot kept in the cache,  *)
(* and one action per public operation.  Every public operation runs with  *)
(* the agent's re-entrant lock held (with_lock, or "with self.lock"), so   *)
(* each one is a single atomic action here; create_goal and                *)
(* break_down_goal are modelled a second time statement by statement, per  *)
(* thread and with the lock explicit.                                      *)
(*                                                                         *)
(* Fields that no operation ever reads back (type, repo, jira_ticket,      *)
(* estimated_effort, assigned_tools, result, created_at and updated_at)    *)
(* are left out of the records; goals are created without repos and        *)
(* without metadata.  A task's completed_at is a set, empty until the task *)
(* is stamped; the clock is not modelled, every stamp reads "now".  A      *)
(* task's dependency list is kept as a set: the code only ever tests       *)
(* membership in it and iterates it inside all().                          *)
(***************************************************************************)
EXTENDS Integers, Sequences, FiniteSets, TLC

VARIABLES
    goals,           \* self.goals: goal id -> Goal
    tasks,           \* self.tasks: task id -> Task
    task_keys,       \* the insertion order of the keys of self.tasks
    goal_counter,    \* self.goal_counter
    task_counter,    \* self.task_counter
    cache_available, \* self.cache.is_available()
    cache_fail,      \* the kinds of cache commands ("set", "delete") that
                     \* raise inside the cache layer for the time being
    cache_changes,   \* how often the cache has changed its behaviour so far
    cache_entries,   \* cache key -> the value under it, for the keys of goals
                     \* and tasks
    cache_full,      \* the values under the cache key goal_agent:state:full:
                     \* one snapshot, or none while the key is not set
    ret,             \* the last operation, its arguments and what it returned
    issued_goals,    \* every goal id create_goal has returned, in order
    issued_tasks,    \* every task id break_down_goal has assigned, in order
    scn,             \* how far the run so far follows the end-to-end scenario
    lock,            \* self.lock: the thread that holds it, 0 when it is free
    pc,              \* thread -> where its call in progress stands
    local,           \* thread -> the arguments and local variables of its call
    executor,        \* self._executor: whether it is running, shut down and
                     \* waiting, or shut down for good, and its work queue
    batch,           \* the call of batch_update_tasks in progress: where it
                     \* stands, its futures and its two buckets
    db               \* the tables goals and tasks of the DatabaseManager

vars == <<goals, tasks, task_keys, goal_counter, task_counter,
          cache_available, cache_fail, cache_changes, cache_entries,
          cache_full, ret, issued_goals, issued_tasks, scn, lock, pc, local,
          executor, batch, db>>

\* The part of the state that belongs to calls in progress.
thr == <<lock, pc, local>>

(***************************************************************************)
(* Bounds of the model.                                                    *)
(***************************************************************************)
MaxGoals == 2
MaxTasks == 2
MaxPlanTasks == 3
MaxQueueGoals == 2
MaxQueueTasks == 2
MaxOrderTasks == 3
MaxRestartGoals == 2
MaxRestartTasks == 1
PlanFuel == 2
NumThreads == 2
MaxThreadGoals == 2
MaxThreadTasks == 2
MaxUpdateGoals == 1
MaxUpdateTasks == 2
MaxCacheGoals == 2
MaxCacheTasks == 2
MaxCacheChanges == 1
MaxOutageGoals == 1
MaxOutageTasks == 1
MaxBatchGoals == 1
MaxBatchTasks == 2

(***************************************************************************)
(* Python values.                                                          *)
(***************************************************************************)
None == "None"
EmptyDict == [k \in {} |-> None]

Put(d, k, v) == [x \in (DOMAIN d) \cup {k} |-> IF x = k THEN v ELSE d[x]]
Del(d, k) == [x \in (DOMAIN d) \ {k} |-> d[x]]

\* As Remove, for a removal that is forgotten.
RemoveNothing(s, x) == s

RECURSIVE Remove(_, _)
\* list.remove(x): drops the first occurrence of x.
Remove(s, x) ==
    IF s = <<>> THEN <<>>
    ELSE IF Head(s) = x THEN Tail(s)
    ELSE <<Head(s)>> \o Remove(Tail(s), x)

Range(s) == {s[i] : i \in 1..Len(s)}

Digit(d) ==
    CASE d = 0 -> "0" [] d = 1 -> "1" [] d = 2 -> "2" [] d = 3 -> "3"
      [] d = 4 -> "4" [] d = 5 -> "5" [] d = 6 -> "6" [] d = 7 -> "7"
      [] d = 8 -> "8" [] d = 9 -> "9"

RECURSIVE Decimal(_)
Decimal(n) == IF n < 10 THEN Digit(n) ELSE Decimal(n \div 10) \o Digit(n % 10)

RECURSIVE ZeroPad(_, _)
\* The format spec 04d: zero-padded on the left to at least w characters.
ZeroPad(s, w) == IF Len(s) >= w THEN s ELSE ZeroPad("0" \o s, w)

GoalId(n) == "GOAL-" \o ZeroPad(Decimal(n), 4)
TaskId(n) == "TASK-" \o ZeroPad(Decimal(n), 4)

\* str.strip() on the descriptions the model passes in.
Strip(s) ==
    CASE s = " " -> ""
      [] s = " Ship v2 " -> "Ship v2"
      [] OTHER -> s

Priorities == {"high", "medium", "low"}
GoalStatuses == {"planned", "in_progress", "completed", "cancelled"}
\* As TaskStatuses, for a check that lets the status "done" through.
TaskStatusesAndDone ==
    {"pending", "in_progress", "completed", "failed", "blocked", "done"}

TaskStatuses == {"pending", "in_progress", "completed", "failed", "blocked"}

\* As Goal, for a constructor that starts every goal as in_progress.
GoalStartedInProgress(description, priority, status) ==
    [description |-> description, priority |-> priority,
     status |-> "in_progress", tasks |-> <<>>,
     repos |-> <<>>, metadata |-> EmptyDict]

Goal(description, priority, status) ==
    [description |-> description, priority |-> priority, status |-> status,
     tasks |-> <<>>, repos |-> <<>>, metadata |-> EmptyDict]

Task(goal_id, description, status, priority, dependencies) ==
    [goal_id |-> goal_id, description |-> description, status |-> status,
     priority |-> priority, dependencies |-> dependencies,
     completed_at |-> {}]

\* datetime.now().isoformat()
Timestamp == {"now"}

\* As WithStatus, for an update that stamps the task whatever the status.
WithStatusStamped(task, status) ==
    [task EXCEPT !.status = status, !.completed_at = Timestamp]

\* "task.status = status" and, for completed, "task.completed_at = now".
WithStatus(task, status) ==
    [task EXCEPT !.status = status,
                 !.completed_at = IF status = "completed" THEN Timestamp ELSE @]

(***************************************************************************)
(* The cache.  An operation sees it as a record c: whether it answers, the *)
(* kinds of commands that raise, the snapshot under state:full and the     *)
(* entries of goals and tasks, and whether an exception of the client has  *)
(* left the cache layer.  Only the snapshot is ever read back.             *)
(***************************************************************************)
get_cache_state(gs, ts, tk, gc, tc) ==
    [goals |-> gs, tasks |-> ts, task_keys |-> tk,
     goal_counter |-> gc, task_counter |-> tc]

\* The cache as the running operation finds it.
Cache ==
    [available |-> cache_available, fail |-> cache_fail,
     full |-> cache_full, entries |-> cache_entries, raised |-> FALSE]

\* No cache at all: disabled, with nothing in it.
NoCache ==
    [available |-> FALSE, fail |-> {}, full |-> {}, entries |-> EmptyDict,
     raised |-> FALSE]

get_cache_key(key_type, identifier) ==
    "goal_agent:" \o key_type \o ":" \o identifier

FullStateKey == get_cache_key("state", "full")

is_available(c) == c.available

\* As Caught, for a cache layer without its except clauses.
Escapes(c) == [c EXCEPT !.raised = TRUE]

\* except Exception: the error is logged and the method returns False.
Caught(c) == c

\* cache_set: skipped while the cache is off, and an exception of the client
\* is caught and logged.
cache_set(c, key, value) ==
    IF ~c.available THEN c
    ELSE IF "set" \in c.fail THEN Caught(c)
    ELSE IF key = FullStateKey THEN [c EXCEPT !.full = {value}]
    ELSE [c EXCEPT !.entries = Put(@, key, value)]

\* As cache_delete, for a cache layer that never sends the DEL.
CacheDeleteSkipped(c, keys) == c

\* cache_delete, with the same two ways of doing nothing.
cache_delete(c, keys) ==
    IF ~c.available THEN c
    ELSE IF "delete" \in c.fail THEN Caught(c)
    ELSE [c EXCEPT !.entries = [k \in (DOMAIN @) \ keys |-> @[k]]]

\* _save_full_state: state is what get_cache_state returns at that moment.
_save_full_state(c, state) ==
    IF ~is_available(c) THEN c ELSE cache_set(c, FullStateKey, state)

\* _persist_to_cache: the entity's entry, then the snapshot.
_persist_to_cache(c, entity_type, entity_id, data, state) ==
    IF ~is_available(c) THEN c
    ELSE _save_full_state(cache_set(c, get_cache_key(entity_type, entity_id), data),
                          state)

(***************************************************************************)
(* What an operation leaves behind: the values of the variables it may     *)
(* change.  Now(c) changes nothing but the cache, Apply makes a result the *)
(* next state; Store is Apply on behalf of a worker of the pool.           *)
(***************************************************************************)
Now(c) ==
    [goals |-> goals, tasks |-> tasks, task_keys |-> task_keys,
     goal_counter |-> goal_counter, task_counter |-> task_counter,
     cache |-> c, ret |-> ret,
     issued_goals |-> issued_goals, issued_tasks |-> issued_tasks]

\* What the caller gets: the result of the operation, or the exception that
\* came out of the cache layer while it ran.
Returned(n) ==
    IF n.cache.raised THEN [op |-> n.ret.op, ok |-> FALSE] ELSE n.ret

Store(n) ==
    /\ goals' = n.goals
    /\ tasks' = n.tasks
    /\ task_keys' = n.task_keys
    /\ goal_counter' = n.goal_counter
    /\ task_counter' = n.task_counter
    /\ cache_full' = n.cache.full
    /\ cache_entries' = n.cache.entries
    /\ ret' = Returned(n)
    /\ issued_goals' = n.issued_goals
    /\ issued_tasks' = n.issued_tasks
    /\ UNCHANGED <<cache_available, cache_fail, cache_changes, db, lock, pc, local>>

Apply(n) == Store(n) /\ UNCHANGED <<executor, batch>>

(***************************************************************************)
(* Threads: every public operation runs inside "with self.lock".           *)
(***************************************************************************)
Threads == 1..NumThreads

NoCall == [op |-> None, a |-> None, b |-> None, n |-> 0, id |-> None]

\* As CanAcquire, for a lock that makes no thread wait.
EntersAtOnce(t) == t \in Threads

\* As CanAcquire, for a lock that is not re-entrant: its holder waits too.
LockFree(t) == lock = 0

\* with_lock: a thread enters when the lock is free; the lock is re-entrant,
\* so its holder enters as well.
CanAcquire(t) == lock \in {0, t}

\* No call of batch_update_tasks in progress.
NoBatch ==
    [pc |-> "idle", updates |-> <<>>, i |-> 0, futures |-> <<>>,
     collected |-> {}, successful |-> <<>>, failed |-> <<>>]

(***************************************************************************)
(* The end-to-end scenario, followed by scn: 0 at the start, k after its   *)
(* k-th state-changing call, -1 once the run has left it.                  *)
(***************************************************************************)
ScenarioSubtasks ==
    << [description |-> "A", priority |-> None, dependencies |-> {}],
       [description |-> "B", priority |-> None, dependencies |-> {TaskId(1)}] >>

ScenarioStep(op, a, b) ==
    CASE scn = 0 /\ op = "create_goal" /\ a = "Ship v2" /\ b = "high" -> 1
      [] scn = 1 /\ op = "break_down_goal" /\ a = GoalId(1)
                 /\ b = ScenarioSubtasks -> 2
      [] scn = 2 /\ op = "update_task_status" /\ a = TaskId(1)
                 /\ b = "completed" -> 3
      [] scn = 3 /\ op = "update_task_status" /\ a = TaskId(2)
                 /\ b = "completed" -> 4
      [] OTHER -> -1

(***************************************************************************)
(* State after construction with no data files and nothing in the cache.   *)
(***************************************************************************)
Init ==
    /\ goals = EmptyDict
    /\ tasks = EmptyDict
    /\ task_keys = <<>>
    /\ goal_counter = 0
    /\ task_counter = 0
    /\ cache_available = TRUE
    /\ cache_fail = {}
    /\ cache_changes = 0
    /\ cache_entries = EmptyDict
    /\ cache_full = {}
    /\ ret = [op |-> "init"]
    /\ issued_goals = <<>>
    /\ issued_tasks = <<>>
    /\ scn = 0
    /\ lock = 0
    /\ pc = [t \in Threads |-> "idle"]
    /\ local = [t \in Threads |-> NoCall]
    /\ executor = [state |-> "running", work |-> <<>>]
    /\ batch = NoBatch
    /\ db = [goals |-> EmptyDict, tasks |-> EmptyDict]

(***************************************************************************)
(* create_goal                                                             *)
(***************************************************************************)
\* As NextGoalCounter, without the increment.
SameGoalCounter(gc) == gc

\* self.goal_counter += 1
NextGoalCounter(gc) == gc + 1

\* create_goal with the cache c.
create_goal(c, description, priority) ==
    IF description = None \/ description = "" \/ Strip(description) = ""
       \/ priority \notin Priorities
    THEN [Now(c) EXCEPT !.ret = [op |-> "create_goal", ok |-> FALSE]]
    ELSE LET gc == NextGoalCounter(goal_counter)
             goal_id == GoalId(gc)
             goal == Goal(Strip(description), priority, "planned")
             gs == Put(goals, goal_id, goal)
         IN  [Now(c) EXCEPT
                 !.goal_counter = gc,
                 !.goals = gs,
                 !.cache = _persist_to_cache(c, "goal", goal_id, goal,
                               get_cache_state(gs, tasks, task_keys, gc,
                                               task_counter)),
                 !.issued_goals = Append(issued_goals, goal_id),
                 !.ret = [op |-> "create_goal", ok |-> TRUE, id |-> goal_id]]

CreateGoal(description, priority) ==
    /\ scn' = ScenarioStep("create_goal", description, priority)
    /\ Apply(create_goal(Cache, description, priority))

(***************************************************************************)
(* break_down_goal                                                         *)
(***************************************************************************)
\* As NextTaskCounter, without the increment.
SameTaskCounter(tc) == tc

NextTaskCounter(tc) == tc + 1

\* A subtask's priority: the default and every invalid value become medium.
SubtaskPriority(subtask_def) ==
    LET priority == IF subtask_def.priority = None THEN "medium"
                    ELSE subtask_def.priority
    IN  IF priority \notin Priorities THEN "medium" ELSE priority

RECURSIVE BreakDownLoop(_, _, _, _)
\* The for loop over subtasks, from index i on.  st holds what the loop has
\* changed so far; the loop stops with failed set at the first subtask that
\* has no description, keeping everything done for the subtasks before it.
BreakDownLoop(goal_id, subtasks, i, st) ==
    IF i > Len(subtasks) THEN st
    ELSE IF subtasks[i].description = None \/ subtasks[i].description = ""
    THEN [st EXCEPT !.failed = TRUE]
    ELSE LET tc == NextTaskCounter(st.task_counter)
             task_id == TaskId(tc)
             task == Task(goal_id, Strip(subtasks[i].description), "pending",
                          SubtaskPriority(subtasks[i]), subtasks[i].dependencies)
             ts == Put(st.tasks, task_id, task)
             tk == IF task_id \in DOMAIN st.tasks THEN st.task_keys
                   ELSE Append(st.task_keys, task_id)
             goal_tasks == Append(st.goal_tasks, task_id)
             gs == [goals EXCEPT ![goal_id].tasks = goal_tasks]
         IN  BreakDownLoop(goal_id, subtasks, i + 1,
                 [st EXCEPT !.task_counter = tc,
                            !.tasks = ts,
                            !.task_keys = tk,
                            !.goal_tasks = goal_tasks,
                            !.created = Append(st.created, task_id),
                            !.cache = _persist_to_cache(st.cache, "task", task_id,
                                          task,
                                          get_cache_state(gs, ts, tk,
                                                          goal_counter, tc))])

\* break_down_goal with the cache c.
break_down_goal(c, goal_id, subtasks) ==
    IF goal_id \notin DOMAIN goals \/ subtasks = <<>>
    THEN [Now(c) EXCEPT !.ret = [op |-> "break_down_goal", ok |-> FALSE,
                                 goal_id |-> None, created |-> <<>>]]
    ELSE LET r == BreakDownLoop(goal_id, subtasks, 1,
                      [tasks |-> tasks, task_keys |-> task_keys,
                       task_counter |-> task_counter,
                       goal_tasks |-> goals[goal_id].tasks,
                       created |-> <<>>, failed |-> FALSE, cache |-> c])
             gs == [goals EXCEPT ![goal_id].tasks = r.goal_tasks,
                                 ![goal_id].status =
                                     IF r.failed THEN @ ELSE "in_progress"]
         IN  [Now(c) EXCEPT
                 !.goals = gs,
                 !.tasks = r.tasks,
                 !.task_keys = r.task_keys,
                 !.task_counter = r.task_counter,
                 !.cache =
                     IF r.failed THEN r.cache
                     ELSE _persist_to_cache(r.cache, "goal", goal_id, gs[goal_id],
                              get_cache_state(gs, r.tasks, r.task_keys,
                                              goal_counter, r.task_counter)),
                 !.issued_tasks = issued_tasks \o r.created,
                 !.ret = [op |-> "break_down_goal", ok |-> ~r.failed,
                          goal_id |-> goal_id, created |-> r.created]]

BreakDownGoal(goal_id, subtasks) ==
    /\ scn' = ScenarioStep("break_down_goal", goal_id, subtasks)
    /\ Apply(break_down_goal(Cache, goal_id, subtasks))

(***************************************************************************)
(* update_task_status                                                      *)
(***************************************************************************)
\* The tasks of a goal that still exist, in the order of goal.tasks.
GoalTaskList(gs, ts, goal_id) ==
    SelectSeq(gs[goal_id].tasks, LAMBDA tid : tid \in DOMAIN ts)

\* As AllTasksCompleted, with any() in the place of all().
SomeTaskCompleted(gs, ts, goal_id) ==
    LET all_tasks == GoalTaskList(gs, ts, goal_id)
    IN  /\ all_tasks # <<>>
        /\ \E i \in 1..Len(all_tasks) : ts[all_tasks[i]].status = "completed"

\* "all_tasks and all(t.status == 'completed' for t in all_tasks)"
AllTasksCompleted(gs, ts, goal_id) ==
    LET all_tasks == GoalTaskList(gs, ts, goal_id)
    IN  /\ all_tasks # <<>>
        /\ \A i \in 1..Len(all_tasks) : ts[all_tasks[i]].status = "completed"

\* update_task_status with the cache c.
update_task_status(c, task_id, status) ==
    IF task_id \notin DOMAIN tasks \/ status \notin TaskStatuses
    THEN [Now(c) EXCEPT !.ret = [op |-> "update_task_status", ok |-> FALSE]]
    ELSE LET ts == [tasks EXCEPT ![task_id] = WithStatus(@, status)]
             goal_id == tasks[task_id].goal_id
             c1 == _persist_to_cache(c, "task", task_id, ts[task_id],
                       get_cache_state(goals, ts, task_keys,
                                       goal_counter, task_counter))
             gs == IF goal_id \in DOMAIN goals /\ AllTasksCompleted(goals, ts, goal_id)
                   THEN [goals EXCEPT ![goal_id].status = "completed"]
                   ELSE goals
             c2 == IF goal_id \notin DOMAIN goals THEN c1
                   ELSE _persist_to_cache(c1, "goal", goal_id, gs[goal_id],
                            get_cache_state(gs, ts, task_keys,
                                            goal_counter, task_counter))
         IN  [Now(c) EXCEPT
                 !.tasks = ts,
                 !.goals = gs,
                 !.cache = c2,
                 !.ret = [op |-> "update_task_status", ok |-> TRUE]]

UpdateTaskStatus(task_id, status) ==
    /\ scn' = ScenarioStep("update_task_status", task_id, status)
    /\ Apply(update_task_status(Cache, task_id, status))

(***************************************************************************)
(* update_goal: each supplied field is validated and assigned in turn, so  *)
(* a later invalid field leaves the earlier assignments in place.  repos   *)
(* and metadata are a set with the value supplied, empty for None.         *)
(***************************************************************************)
\* dict.update(other)
DictUpdate(d, other) ==
    [k \in (DOMAIN d) \cup (DOMAIN other) |->
        IF k \in DOMAIN other THEN other[k] ELSE d[k]]

\* "if repos is not None: goal.repos = repos"
AssignRepos(goal, repos) ==
    IF repos = {} THEN goal
    ELSE [goal EXCEPT !.repos = CHOOSE r \in repos : TRUE]

\* As UpdateMetadata, for "goal.metadata = metadata or {}".
ReplaceMetadata(goal, metadata) ==
    [goal EXCEPT !.metadata = IF metadata = {} THEN EmptyDict
                              ELSE CHOOSE m \in metadata : TRUE]

\* "if metadata: goal.metadata.update(metadata)"
UpdateMetadata(goal, metadata) ==
    IF metadata = {} \/ metadata = {EmptyDict} THEN goal
    ELSE [goal EXCEPT !.metadata = DictUpdate(@, CHOOSE m \in metadata : TRUE)]

\* update_goal with the cache c.
update_goal(c, goal_id, description, priority, status, repos, metadata) ==
    IF goal_id \notin DOMAIN goals
    THEN [Now(c) EXCEPT !.ret = [op |-> "update_goal", ok |-> FALSE]]
    ELSE LET has_d == description # None /\ description # ""
             bad_d == has_d /\ Strip(description) = ""
             g1 == IF has_d /\ ~bad_d
                   THEN [goals[goal_id] EXCEPT !.description = Strip(description)]
                   ELSE goals[goal_id]
             has_p == ~bad_d /\ priority # None /\ priority # ""
             bad_p == has_p /\ priority \notin Priorities
             g2 == IF has_p /\ ~bad_p THEN [g1 EXCEPT !.priority = priority]
                   ELSE g1
             has_s == ~bad_d /\ ~bad_p /\ status # None /\ status # ""
             bad_s == has_s /\ status \notin GoalStatuses
             g3 == IF has_s /\ ~bad_s THEN [g2 EXCEPT !.status = status]
                   ELSE g2
             failed == bad_d \/ bad_p \/ bad_s
             g4 == IF failed THEN g3
                   ELSE UpdateMetadata(AssignRepos(g3, repos), metadata)
             gs == [goals EXCEPT ![goal_id] = g4]
         IN  [Now(c) EXCEPT
                 !.goals = gs,
                 !.cache =
                     IF failed THEN c
                     ELSE _persist_to_cache(c, "goal", goal_id, g4,
                              get_cache_state(gs, tasks, task_keys,
                                              goal_counter, task_counter)),
                 !.ret = [op |-> "update_goal", ok |-> ~failed]]

UpdateGoal(goal_id, description, priority, status, repos, metadata) ==
    /\ scn' = -1
    /\ Apply(update_goal(Cache, goal_id, description, priority, status,
                         repos, metadata))

(***************************************************************************)
(* delete_task                                                             *)
(***************************************************************************)
\* "[t.id for t in self.tasks.values() if task_id in t.dependencies]"
DependentTasks(ts, tk, task_id) ==
    SelectSeq(tk, LAMBDA tid : task_id \in ts[tid].dependencies)

\* delete_task with the cache c.
delete_task(c, task_id) ==
    IF task_id \notin DOMAIN tasks
    THEN [Now(c) EXCEPT !.ret = [op |-> "delete_task", ok |-> FALSE]]
    ELSE LET goal_id == tasks[task_id].goal_id
             dependent_tasks == DependentTasks(tasks, task_keys, task_id)
             ts == Del(tasks, task_id)
             tk == Remove(task_keys, task_id)
             listed == goal_id \in DOMAIN goals
                       /\ task_id \in Range(goals[goal_id].tasks)
             gs == IF listed
                   THEN [goals EXCEPT ![goal_id].tasks = Remove(@, task_id)]
                   ELSE goals
             c1 == IF listed
                   THEN _persist_to_cache(c, "goal", goal_id, gs[goal_id],
                            get_cache_state(gs, ts, tk, goal_counter, task_counter))
                   ELSE c
         IN  [Now(c) EXCEPT
                 !.tasks = ts,
                 !.task_keys = tk,
                 !.goals = gs,
                 !.cache = cache_delete(c1, {get_cache_key("task", task_id)}),
                 !.ret = [op |-> "delete_task", ok |-> TRUE, task_id |-> task_id,
                          goal_id |-> goal_id,
                          dependent_tasks |-> dependent_tasks]]

DeleteTask(task_id) ==
    /\ scn' = -1
    /\ Apply(delete_task(Cache, task_id))

(***************************************************************************)
(* delete_goal                                                             *)
(***************************************************************************)
\* delete_goal with the cache c.
delete_goal(c, goal_id) ==
    IF goal_id \notin DOMAIN goals
    THEN [Now(c) EXCEPT !.ret = [op |-> "delete_goal", ok |-> FALSE]]
    ELSE LET task_ids == goals[goal_id].tasks
             gone == Range(task_ids) \cap DOMAIN tasks
             ts == [t \in (DOMAIN tasks) \ gone |-> tasks[t]]
             tk == SelectSeq(task_keys, LAMBDA tid : tid \notin gone)
             gs == Del(goals, goal_id)
             c1 == cache_delete(c, {get_cache_key("task", t) : t \in gone})
             c2 == cache_delete(c1, {get_cache_key("goal", goal_id)})
         IN  [Now(c) EXCEPT
                 !.tasks = ts,
                 !.task_keys = tk,
                 !.goals = gs,
                 !.cache = _save_full_state(c2,
                               get_cache_state(gs, ts, tk, goal_counter,
                                               task_counter)),
                 !.ret = [op |-> "delete_goal", ok |-> TRUE]]

DeleteGoal(goal_id) ==
    /\ scn' = -1
    /\ Apply(delete_goal(Cache, goal_id))

(***************************************************************************)
(* get_next_tasks                                                          *)
(***************************************************************************)
\* As DependencyStatus, with a dependency that names no task read as done,
\* the way the planner reads it.
DependencyStatusMissingDone(ts, dep_id) ==
    IF dep_id \in DOMAIN ts THEN ts[dep_id].status ELSE "completed"

\* A dependency that names no task reads as a Task with status "".
DependencyStatus(ts, dep_id) ==
    IF dep_id \in DOMAIN ts THEN ts[dep_id].status ELSE ""

DependenciesMet(ts, task_id) ==
    \A dep_id \in ts[task_id].dependencies :
        DependencyStatus(ts, dep_id) = "completed"

\* priority_order.get(priority, 1)
PriorityRank(priority) ==
    CASE priority = "high" -> 0
      [] priority = "medium" -> 1
      [] priority = "low" -> 2
      [] OTHER -> 1

RECURSIVE InsertBeforeEqualRank(_, _, _)
\* As InsertByRank, with x put in front of the elements of its own rank.
InsertBeforeEqualRank(ts, sorted, x) ==
    IF sorted = <<>> THEN <<x>>
    ELSE IF PriorityRank(ts[Head(sorted)].priority) < PriorityRank(ts[x].priority)
    THEN <<Head(sorted)>> \o InsertBeforeEqualRank(ts, Tail(sorted), x)
    ELSE <<x>> \o sorted

RECURSIVE InsertByRank(_, _, _)
\* x goes behind every element whose rank is not greater than its own.
InsertByRank(ts, sorted, x) ==
    IF sorted = <<>> THEN <<x>>
    ELSE IF PriorityRank(ts[Head(sorted)].priority) <= PriorityRank(ts[x].priority)
    THEN <<Head(sorted)>> \o InsertByRank(ts, Tail(sorted), x)
    ELSE <<x>> \o sorted

RECURSIVE SortByPriority(_, _, _)
\* list.sort(key = rank): a stable sort, here by insertion from the left.
SortByPriority(ts, unsorted, sorted) ==
    IF unsorted = <<>> THEN sorted
    ELSE SortByPriority(ts, Tail(unsorted), InsertByRank(ts, sorted, Head(unsorted)))

TasksToCheck(gs, ts, tk, goal_id) ==
    IF goal_id # None /\ goal_id # "" THEN GoalTaskList(gs, ts, goal_id) ELSE tk

\* As ExecutableTasks, without the check of the dependencies.
PendingTasks(ts, tasks_to_check) ==
    SelectSeq(tasks_to_check, LAMBDA tid : ts[tid].status = "pending")

ExecutableTasks(ts, tasks_to_check) ==
    SelectSeq(tasks_to_check,
              LAMBDA tid : ts[tid].status = "pending" /\ DependenciesMet(ts, tid))

get_next_tasks(gs, ts, tk, goal_id) ==
    SortByPriority(ts, ExecutableTasks(ts, TasksToCheck(gs, ts, tk, goal_id)), <<>>)

GetNextTasks(goal_id) ==
    /\ IF goal_id # None /\ goal_id # "" /\ goal_id \notin DOMAIN goals
       THEN ret' = [op |-> "get_next_tasks", ok |-> FALSE]
       ELSE ret' = [op |-> "get_next_tasks", ok |-> TRUE, goal_id |-> goal_id,
                    value |-> get_next_tasks(goals, tasks, task_keys, goal_id)]
    /\ UNCHANGED <<goals, tasks, task_keys, goal_counter, task_counter,
                   cache_available, cache_fail, cache_changes, db, executor, batch, cache_entries, cache_full,
                   issued_goals, issued_tasks, scn, lock, pc, local>>

(***************************************************************************)
(* generate_execution_plan                                                 *)
(***************************************************************************)
\* As PlanDependenciesMet, without the exemption of the dependencies that
\* name no task of this goal.
PlanDependenciesAllPlaced(ts, all_ids, completed_task_ids, task_id) ==
    \A dep_id \in ts[task_id].dependencies : dep_id \in completed_task_ids

\* A dependency is met once it is in completed_task_ids, or when it names
\* no task of this goal.
PlanDependenciesMet(ts, all_ids, completed_task_ids, task_id) ==
    \A dep_id \in ts[task_id].dependencies :
        dep_id \in completed_task_ids \/ dep_id \notin all_ids

RECURSIVE PlanPass(_, _, _, _)
\* "for task in remaining_tasks[:]": one pass over a copy of the remaining
\* tasks; a task that is placed joins completed_task_ids at once, before the
\* next task of the same pass is looked at.
PlanPass(ts, all_ids, todo, st) ==
    IF todo = <<>> THEN st
    ELSE LET task_id == Head(todo)
         IN  IF PlanDependenciesMet(ts, all_ids, st.completed_task_ids, task_id)
             THEN PlanPass(ts, all_ids, Tail(todo),
                      [st EXCEPT !.phase_tasks = Append(@, task_id),
                                 !.completed_task_ids = @ \cup {task_id},
                                 !.remaining_tasks = Remove(@, task_id)])
             ELSE PlanPass(ts, all_ids, Tail(todo), st)

\* As MaxIterations, for "max_iterations = 1".
OneIteration(n) == 1

\* "max_iterations = len(tasks) + 1"
MaxIterations(n) == n + 1

\* As PlanContinues, for a loop "while remaining_tasks:" that neither counts
\* its iterations nor leaves when a pass places nothing.
PlanContinuesWhileRemaining(st, max_iterations) ==
    st.remaining_tasks # <<>>

\* The loop goes on while tasks remain, the iteration bound is not reached
\* and no pass has ended the loop with break.
PlanContinues(st, max_iterations) ==
    /\ ~st.stopped
    /\ st.remaining_tasks # <<>>
    /\ st.iteration < max_iterations

\* What one iteration of the while loop does to the loop's variables.
PlanIteration(ts, all_ids, st) ==
    LET p == PlanPass(ts, all_ids, st.remaining_tasks,
                 [phase_tasks |-> <<>>,
                  completed_task_ids |-> st.completed_task_ids,
                  remaining_tasks |-> st.remaining_tasks])
    IN  IF p.phase_tasks = <<>>
        THEN [st EXCEPT !.iteration = @ + 1,
                        !.stopped = TRUE,
                        !.phases = Append(@,
                            [phase |-> Len(st.phases) + 1,
                             tasks |-> st.remaining_tasks,
                             warning |-> TRUE,
                             parallel_execution_possible |-> FALSE])]
        ELSE [st EXCEPT !.iteration = @ + 1,
                        !.completed_task_ids = p.completed_task_ids,
                        !.remaining_tasks = p.remaining_tasks,
                        !.phases = Append(@,
                            [phase |-> Len(st.phases) + 1,
                             tasks |-> p.phase_tasks,
                             warning |-> FALSE,
                             parallel_execution_possible |-> Len(p.phase_tasks) > 1])]

RECURSIVE PlanLoop(_, _, _, _, _)
\* The while loop.  The model follows it for fuel iterations at most.
PlanLoop(ts, all_ids, max_iterations, st, fuel) ==
    IF fuel > 0 /\ PlanContinues(st, max_iterations)
    THEN PlanLoop(ts, all_ids, max_iterations, PlanIteration(ts, all_ids, st), fuel - 1)
    ELSE st

generate_execution_plan(gs, ts, goal_id) ==
    LET task_list == GoalTaskList(gs, ts, goal_id)
        st == PlanLoop(ts, Range(task_list), MaxIterations(Len(task_list)),
                  [phases |-> <<>>, remaining_tasks |-> task_list,
                   completed_task_ids |-> {}, iteration |-> 0, stopped |-> FALSE],
                  MaxIterations(Len(task_list)) + PlanFuel)
    IN  IF task_list = <<>>
        THEN [total_tasks |-> 0, total_phases |-> 0, execution_phases |-> <<>>,
              iterations |-> 0]
        ELSE [total_tasks |-> Len(task_list), total_phases |-> Len(st.phases),
              execution_phases |-> st.phases, iterations |-> st.iteration]

GenerateExecutionPlan(goal_id) ==
    /\ IF goal_id \notin DOMAIN goals
       THEN ret' = [op |-> "generate_execution_plan", ok |-> FALSE]
       ELSE ret' = [op |-> "generate_execution_plan", ok |-> TRUE,
                    goal_id |-> goal_id,
                    plan |-> generate_execution_plan(goals, tasks, goal_id)]
    /\ UNCHANGED <<goals, tasks, task_keys, goal_counter, task_counter,
                   cache_available, cache_fail, cache_changes, db, executor, batch, cache_entries, cache_full,
                   issued_goals, issued_tasks, scn, lock, pc, local>>

(***************************************************************************)
(* create_goal and break_down_goal, statement by statement, as a thread    *)
(* runs them: "self.goal_counter += 1" is a read followed by a write, and  *)
(* the id is formatted from a second read of the counter.                  *)
(***************************************************************************)
\* What the checks at the head of the operation raise on.
CallRaises(c) ==
    IF c.op = "create_goal"
    THEN c.a = None \/ c.a = "" \/ Strip(c.a) = "" \/ c.b \notin Priorities
    ELSE \/ c.a \notin DOMAIN goals
         \/ c.b = <<>>
         \/ c.b[1].description = None \/ c.b[1].description = ""

\* A thread calls op with the arguments a and b: it enters the lock and runs
\* the checks at the head of the operation; an exception leaves the "with"
\* block and frees the lock.
ThreadCall(t, op, a, b) ==
    LET call == [NoCall EXCEPT !.op = op, !.a = a, !.b = b]
    IN  /\ pc[t] = "idle"
        /\ CanAcquire(t)
        /\ IF CallRaises(call)
           THEN /\ ret' = [op |-> op, ok |-> FALSE]
                /\ UNCHANGED <<lock, pc, local>>
           ELSE /\ pc' = [pc EXCEPT ![t] = "load"]
                /\ local' = [local EXCEPT ![t] = call]
                /\ lock' = t
                /\ UNCHANGED ret
        /\ UNCHANGED <<goals, tasks, task_keys, goal_counter, task_counter,
                       cache_available, cache_fail, cache_changes, db, executor, batch, cache_entries, cache_full,
                       issued_goals, issued_tasks, scn>>

\* The read of "counter += 1".
ThreadLoadCounter(t) ==
    /\ pc[t] = "load"
    /\ pc' = [pc EXCEPT ![t] = "store"]
    /\ local' = [local EXCEPT ![t].n = IF local[t].op = "create_goal"
                                       THEN goal_counter ELSE task_counter]
    /\ UNCHANGED <<goals, tasks, task_keys, goal_counter, task_counter,
                   cache_available, cache_fail, cache_changes, db, executor, batch, cache_entries, cache_full, ret,
                   issued_goals, issued_tasks, scn, lock>>

\* The write of "counter += 1".
ThreadStoreCounter(t) ==
    /\ pc[t] = "store"
    /\ pc' = [pc EXCEPT ![t] = "format"]
    /\ IF local[t].op = "create_goal"
       THEN goal_counter' = NextGoalCounter(local[t].n) /\ UNCHANGED task_counter
       ELSE task_counter' = NextTaskCounter(local[t].n) /\ UNCHANGED goal_counter
    /\ UNCHANGED <<goals, tasks, task_keys, cache_available, cache_fail, cache_changes, db, executor, batch,
                   cache_entries, cache_full, ret, issued_goals, issued_tasks,
                   scn, lock, local>>

\* goal_id = f"GOAL-{self.goal_counter:04d}", task_id likewise.
ThreadFormatId(t) ==
    /\ pc[t] = "format"
    /\ pc' = [pc EXCEPT ![t] = "put"]
    /\ local' = [local EXCEPT ![t].id = IF local[t].op = "create_goal"
                                        THEN GoalId(goal_counter)
                                        ELSE TaskId(task_counter)]
    /\ UNCHANGED <<goals, tasks, task_keys, goal_counter, task_counter,
                   cache_available, cache_fail, cache_changes, db, executor, batch, cache_entries, cache_full, ret,
                   issued_goals, issued_tasks, scn, lock>>

\* The rest of create_goal: the goal is stored and persisted, the call
\* returns and the lock is freed.
ThreadCreateGoalReturn(t) ==
    /\ pc[t] = "put"
    /\ local[t].op = "create_goal"
    /\ LET goal_id == local[t].id
           goal == Goal(Strip(local[t].a), local[t].b, "planned")
           gs == Put(goals, goal_id, goal)
           c == _persist_to_cache(Cache, "goal", goal_id, goal,
                    get_cache_state(gs, tasks, task_keys,
                                    goal_counter, task_counter))
       IN  /\ goals' = gs
           /\ cache_full' = c.full
           /\ cache_entries' = c.entries
           /\ issued_goals' = Append(issued_goals, goal_id)
           /\ ret' = [op |-> "create_goal", ok |-> TRUE, id |-> goal_id]
    /\ pc' = [pc EXCEPT ![t] = "idle"]
    /\ local' = [local EXCEPT ![t] = NoCall]
    /\ lock' = IF lock = t THEN 0 ELSE lock
    /\ scn' = -1
    /\ UNCHANGED <<tasks, task_keys, goal_counter, task_counter,
                   cache_available, cache_fail, cache_changes, db, executor, batch, issued_tasks>>

\* The rest of one round of the loop of break_down_goal: the task is stored,
\* appended to the goal the call holds and persisted.  Then the loop goes on
\* with the next subtask, raises on one without a description, or ends: the
\* goal becomes in_progress and is persisted, the call returns and the lock
\* is freed.
ThreadBreakDownGoalPut(t) ==
    /\ pc[t] = "put"
    /\ local[t].op = "break_down_goal"
    /\ LET goal_id == local[t].a
           subtask_def == local[t].b[1]
           rest == Tail(local[t].b)
           task_id == local[t].id
           raises == rest # <<>> /\ (rest[1].description = None
                                     \/ rest[1].description = "")
           task == Task(goal_id, Strip(subtask_def.description), "pending",
                        SubtaskPriority(subtask_def), subtask_def.dependencies)
           ts == Put(tasks, task_id, task)
           tk == IF task_id \in DOMAIN tasks THEN task_keys
                 ELSE Append(task_keys, task_id)
           held == goal_id \in DOMAIN goals
           g1 == IF ~held THEN goals
                 ELSE [goals EXCEPT ![goal_id].tasks = Append(@, task_id)]
           gs == IF ~held \/ rest # <<>> THEN g1
                 ELSE [g1 EXCEPT ![goal_id].status = "in_progress"]
           c1 == _persist_to_cache(Cache, "task", task_id, task,
                     get_cache_state(g1, ts, tk, goal_counter, task_counter))
           c2 == IF ~held \/ rest # <<>> THEN c1
                 ELSE _persist_to_cache(c1, "goal", goal_id, gs[goal_id],
                          get_cache_state(gs, ts, tk, goal_counter, task_counter))
       IN  /\ tasks' = ts
           /\ task_keys' = tk
           /\ goals' = gs
           /\ cache_full' = c2.full
           /\ cache_entries' = c2.entries
           /\ issued_tasks' = Append(issued_tasks, task_id)
           /\ IF rest # <<>> /\ ~raises
              THEN /\ pc' = [pc EXCEPT ![t] = "load"]
                   /\ local' = [local EXCEPT ![t].b = rest]
                   /\ UNCHANGED <<lock, ret>>
              ELSE /\ pc' = [pc EXCEPT ![t] = "idle"]
                   /\ local' = [local EXCEPT ![t] = NoCall]
                   /\ lock' = IF lock = t THEN 0 ELSE lock
                   /\ ret' = [op |-> "break_down_goal", ok |-> ~raises]
    /\ scn' = -1
    /\ UNCHANGED <<goal_counter, task_counter, cache_available, cache_fail, cache_changes, db, executor, batch,
                   issued_goals>>

\* delete_goal and delete_task by a thread: the whole call runs inside the
\* lock, which is free again when it returns.
ThreadDeleteGoal(t, goal_id) ==
    /\ pc[t] = "idle"
    /\ CanAcquire(t)
    /\ DeleteGoal(goal_id)

ThreadDeleteTask(t, task_id) ==
    /\ pc[t] = "idle"
    /\ CanAcquire(t)
    /\ DeleteTask(task_id)

(***************************************************************************)
(* Start-up: __init__ and _load_from_cache.  The data files come first;    *)
(* without them the full-state snapshot of the cache is restored.  The     *)
(* cache outlives the process, the logs of issued ids do not.              *)
(***************************************************************************)
\* restore_from_cache: the counters are read with state.get(key, 0).
restore_from_cache(state) ==
    [goals |-> state.goals, tasks |-> state.tasks, task_keys |-> state.task_keys,
     goal_counter |-> state.goal_counter, task_counter |-> state.task_counter]

\* _load_from_files on the fresh agent: goals.json and tasks.json fill the
\* dictionaries; the counters stay 0 when counters.json does not exist.
_load_from_files(files) ==
    [goals |-> files.goals, tasks |-> files.tasks, task_keys |-> files.task_keys,
     goal_counter |-> IF files.counters = {} THEN 0
                      ELSE (CHOOSE c \in files.counters : TRUE).goal,
     task_counter |-> IF files.counters = {} THEN 0
                      ELSE (CHOOSE c \in files.counters : TRUE).task]

FreshState ==
    [goals |-> EmptyDict, tasks |-> EmptyDict, task_keys |-> <<>>,
     goal_counter |-> 0, task_counter |-> 0]

\* files: what the data directory holds, empty when the files do not exist.
\* up: whether the cache answers at start-up.
Restart(files, up) ==
    LET st == IF files # {} THEN _load_from_files(CHOOSE f \in files : TRUE)
              ELSE IF ~up \/ cache_full = {} THEN FreshState
              ELSE restore_from_cache(CHOOSE state \in cache_full : TRUE)
    IN  /\ goals' = st.goals
        /\ tasks' = st.tasks
        /\ task_keys' = st.task_keys
        /\ goal_counter' = st.goal_counter
        /\ task_counter' = st.task_counter
        /\ cache_available' = up
        /\ cache_full' =
               IF files # {}
               THEN _save_full_state([Cache EXCEPT !.available = up],
                        get_cache_state(st.goals, st.tasks, st.task_keys,
                                        st.goal_counter, st.task_counter)).full
               ELSE cache_full
        /\ UNCHANGED <<cache_fail, cache_changes, db, executor, batch, cache_entries>>
        /\ ret' = [op |-> "restart", ok |-> TRUE]
        /\ issued_goals' = <<>>
        /\ issued_tasks' = <<>>
        /\ scn' = -1
        /\ UNCHANGED thr

(***************************************************************************)
(* Inputs.                                                                 *)
(***************************************************************************)
GoalIds(n) == {GoalId(k) : k \in 1..n}
TaskIds(n) == {TaskId(k) : k \in 1..n}

Subtask(description, priority, dependencies) ==
    [description |-> description, priority |-> priority,
     dependencies |-> dependencies]

\* The lists of one or two subtasks over defs, and the empty list.
SubtaskLists(defs) ==
    {<<>>} \cup {<<a>> : a \in defs} \cup {<<a, b>> : a \in defs, b \in defs}

(***************************************************************************)
(* The orchestrator's life: every state-changing operation, also on ids    *)
(* that are not there yet or not there any more, and with a status that is *)
(* none.                                                                   *)
(***************************************************************************)
Next ==
    \/ /\ goal_counter < MaxGoals
       /\ \E d \in {"Ship v2", " "}, p \in {"high", "urgent"} : CreateGoal(d, p)
    \/ \E g \in GoalIds(MaxGoals),
          l \in SubtaskLists({Subtask("A", None, {}), Subtask(None, None, {})}) :
           /\ task_counter + Len(l) <= MaxTasks
           /\ BreakDownGoal(g, l)
    \/ \E t \in TaskIds(MaxTasks), st \in {"completed", "done"} :
           UpdateTaskStatus(t, st)
    \/ \E g \in GoalIds(MaxGoals), st \in {"cancelled", "archived"} :
           UpdateGoal(g, None, None, st, {}, {})
    \/ \E t \in TaskIds(MaxTasks) : DeleteTask(t)
    \/ \E g \in GoalIds(MaxGoals) : DeleteGoal(g)

Spec == Init /\ [][Next]_vars

(***************************************************************************)
(* The planner on every task set of one goal: tasks are added one at a    *)
(* time, each with at most two dependencies among the ids the goal's tasks *)
(* get and one id that no task ever gets.                                  *)
(***************************************************************************)
PlanDependencySets ==
    {d \in SUBSET TaskIds(MaxPlanTasks + 1) : Cardinality(d) <= 2}

NextPlan ==
    \/ /\ goal_counter = 0
       /\ CreateGoal("Ship v2", "high")
    \/ \E d \in PlanDependencySets :
           /\ task_counter < MaxPlanTasks
           /\ BreakDownGoal(GoalId(1), <<Subtask("A", None, d)>>)
    \/ \E g \in GoalIds(2) : GenerateExecutionPlan(g)

SpecPlan == Init /\ [][NextPlan]_vars

(***************************************************************************)
(* The ready queue: tasks of several goals, with dependencies on earlier   *)
(* tasks, on themselves, on later tasks and on an id that no task ever     *)
(* gets, moved between pending, in_progress and completed.                 *)
(***************************************************************************)
QueueDependencySets ==
    { {}, {TaskId(1)}, {TaskId(1), TaskId(2)}, {TaskId(MaxQueueTasks + 1)} }

QueueSubtaskLists ==
    {<<Subtask("A", None, d)>> : d \in QueueDependencySets} \cup {ScenarioSubtasks}

NextQueue ==
    \/ /\ goal_counter < MaxQueueGoals
       /\ CreateGoal("Ship v2", "high")
    \/ \E g \in GoalIds(MaxQueueGoals), l \in QueueSubtaskLists :
           /\ task_counter + Len(l) <= MaxQueueTasks
           /\ BreakDownGoal(g, l)
    \/ \E t \in TaskIds(MaxQueueTasks), st \in {"completed", "in_progress"} :
           UpdateTaskStatus(t, st)
    \/ \E g \in GoalIds(MaxQueueGoals + 1) \cup {None} : GetNextTasks(g)

SpecQueue == Init /\ [][NextQueue]_vars

(***************************************************************************)
(* The order of the ready queue: the tasks of one goal, of every priority, *)
(* pending or completed.                                                   *)
(***************************************************************************)
NextOrder ==
    \/ /\ goal_counter = 0
       /\ CreateGoal("Ship v2", "high")
    \/ \E p \in {"high", "low", "urgent", None} :
           /\ task_counter < MaxOrderTasks
           /\ BreakDownGoal(GoalId(1), <<Subtask("A", p, {})>>)
    \/ \E t \in TaskIds(MaxOrderTasks) : UpdateTaskStatus(t, "completed")
    \/ \E g \in {GoalId(1), None} : GetNextTasks(g)

SpecOrder == Init /\ [][NextOrder]_vars

(***************************************************************************)
(* Deleting tasks that other tasks, or they themselves, depend on.         *)
(***************************************************************************)
NextDelete ==
    \/ /\ goal_counter < MaxQueueGoals
       /\ CreateGoal("Ship v2", "high")
    \/ \E g \in GoalIds(MaxQueueGoals), d \in QueueDependencySets :
           /\ task_counter < MaxQueueTasks
           /\ BreakDownGoal(g, <<Subtask("A", None, d)>>)
    \/ \E t \in TaskIds(MaxQueueTasks) : UpdateTaskStatus(t, "completed")
    \/ \E t \in TaskIds(MaxQueueTasks + 1) : DeleteTask(t)
    \/ \E g \in GoalIds(MaxQueueGoals + 1) : DeleteGoal(g)

SpecDelete == Init /\ [][NextDelete]_vars

(***************************************************************************)
(* update_goal with every combination of a missing, a blank, a valid and   *)
(* an invalid value of its fields, next to the task-status updates.        *)
(***************************************************************************)
NextUpdate ==
    \/ /\ goal_counter < MaxUpdateGoals
       /\ CreateGoal("Ship v2", "high")
    \/ \E g \in GoalIds(MaxUpdateGoals) :
           /\ task_counter < MaxUpdateTasks
           /\ BreakDownGoal(g, <<Subtask("A", None, {})>>)
    \/ \E t \in TaskIds(MaxUpdateTasks), st \in {"completed", "in_progress"} :
           UpdateTaskStatus(t, st)
    \/ \E g \in GoalIds(MaxUpdateGoals + 1), d \in {None, "Ship v3", " "},
          p \in {None, "low", "urgent"},
          st \in {None, "completed", "cancelled", "archived"} :
           UpdateGoal(g, d, p, st, {}, {})

SpecUpdate == Init /\ [][NextUpdate]_vars

(***************************************************************************)
(* Concurrent creations and deletions.                                     *)
(***************************************************************************)
NextThreads ==
    \/ \E t \in Threads :
           /\ goal_counter < MaxThreadGoals
           /\ ThreadCall(t, "create_goal", "Ship v2", "high")
    \/ \E t \in Threads, g \in GoalIds(MaxThreadGoals),
          l \in SubtaskLists({Subtask("A", None, {})}) :
           /\ task_counter + Len(l) <= MaxThreadTasks
           /\ ThreadCall(t, "break_down_goal", g, l)
    \/ \E t \in Threads : ThreadLoadCounter(t)
    \/ \E t \in Threads : ThreadStoreCounter(t)
    \/ \E t \in Threads : ThreadFormatId(t)
    \/ \E t \in Threads : ThreadCreateGoalReturn(t)
    \/ \E t \in Threads : ThreadBreakDownGoalPut(t)
    \/ \E t \in Threads, g \in GoalIds(MaxThreadGoals) : ThreadDeleteGoal(t, g)
    \/ \E t \in Threads, k \in TaskIds(MaxThreadTasks) : ThreadDeleteTask(t, k)

SpecThreads == Init /\ [][NextThreads]_vars

(***************************************************************************)
(* Restarts.  The data directory holds no files, or a goals.json with one  *)
(* planned goal and an empty tasks.json, with or without a counters.json   *)
(* that agrees with them.                                                  *)
(***************************************************************************)
DataFiles ==
    {{}} \cup
    UNION { { {[goals |-> Put(EmptyDict, GoalId(n),
                              Goal("Ship v2", "high", "planned")),
                tasks |-> EmptyDict, task_keys |-> <<>>, counters |-> c]} :
                 c \in {{}, {[goal |-> n, task |-> 0]}} } :
            n \in 1..MaxRestartGoals }

NextRestart ==
    \/ /\ goal_counter < MaxRestartGoals
       /\ CreateGoal("Ship v2", "high")
    \/ \E g \in GoalIds(MaxRestartGoals) :
           /\ task_counter < MaxRestartTasks
           /\ BreakDownGoal(g, <<Subtask("A", None, {})>>)
    \/ \E t \in TaskIds(MaxRestartTasks) : DeleteTask(t)
    \/ \E g \in GoalIds(MaxRestartGoals) : DeleteGoal(g)
    \/ \E f \in DataFiles, up \in BOOLEAN : Restart(f, up)

SpecRestart == Init /\ [][NextRestart]_vars

(***************************************************************************)
(* Reads of one goal and of one task, and a cache that comes and goes.     *)
(***************************************************************************)
\* get_goal: the goal from self.goals with the details of its tasks that
\* exist, and where its cache entry would be.
get_goal(c, goal_id) ==
    IF goal_id \notin DOMAIN goals
    THEN [op |-> "get_goal", ok |-> FALSE]
    ELSE LET listed == SelectSeq(goals[goal_id].tasks,
                                 LAMBDA tid : tid \in DOMAIN tasks)
         IN  [op |-> "get_goal", ok |-> TRUE, id |-> goal_id,
              result |-> [goal |-> goals[goal_id],
                          task_details |->
                              [i \in 1..Len(listed) |-> tasks[listed[i]]],
                          _cache_status |->
                              [enabled |-> is_available(c),
                               key |-> get_cache_key("goal", goal_id)]]]

GetGoal(goal_id) ==
    /\ ret' = get_goal(Cache, goal_id)
    /\ scn' = scn
    /\ UNCHANGED <<goals, tasks, task_keys, goal_counter, task_counter,
                   cache_available, cache_fail, cache_changes, db, executor, batch, cache_entries, cache_full,
                   issued_goals, issued_tasks, lock, pc, local>>

\* get_task: the task from self.tasks, and where its cache entry would be.
get_task(c, task_id) ==
    IF task_id \notin DOMAIN tasks
    THEN [op |-> "get_task", ok |-> FALSE]
    ELSE [op |-> "get_task", ok |-> TRUE, id |-> task_id,
          result |-> [task |-> tasks[task_id],
                      _cache_status |->
                          [enabled |-> is_available(c),
                           key |-> get_cache_key("task", task_id)]]]

GetTask(task_id) ==
    /\ ret' = get_task(Cache, task_id)
    /\ scn' = scn
    /\ UNCHANGED <<goals, tasks, task_keys, goal_counter, task_counter,
                   cache_available, cache_fail, cache_changes, db, executor, batch, cache_entries, cache_full,
                   issued_goals, issued_tasks, lock, pc, local>>

\* The kinds of command the Redis client may raise on.
CacheCommands == {"set", "delete"}

\* Between two operations the server behind the cache may stop or start
\* answering, and its commands may start or stop raising.
CacheWeather(up, fail) ==
    /\ cache_changes < MaxCacheChanges
    /\ <<up, fail>> # <<cache_available, cache_fail>>
    /\ up \/ fail = {}
    /\ cache_available' = up
    /\ cache_fail' = fail
    /\ cache_changes' = cache_changes + 1
    /\ UNCHANGED <<goals, tasks, task_keys, goal_counter, task_counter,
                   cache_entries, cache_full, ret, issued_goals, issued_tasks,
                   scn, lock, pc, local, executor, batch, db>>

NextCache ==
    \/ /\ goal_counter < MaxCacheGoals
       /\ CreateGoal("Ship v2", "high")
    \/ \E g \in GoalIds(MaxCacheGoals) :
           /\ task_counter < MaxCacheTasks
           /\ BreakDownGoal(g, <<Subtask("A", None, {})>>)
    \/ \E t \in TaskIds(MaxCacheTasks) : DeleteTask(t)
    \/ \E g \in GoalIds(MaxCacheGoals) : DeleteGoal(g)
    \/ \E up \in BOOLEAN, fail \in SUBSET CacheCommands : CacheWeather(up, fail)

SpecCache == Init /\ [][NextCache]_vars

NextRead ==
    \/ /\ goal_counter < MaxCacheGoals
       /\ CreateGoal("Ship v2", "high")
    \/ \E g \in GoalIds(MaxCacheGoals) :
           /\ task_counter < MaxCacheTasks
           /\ BreakDownGoal(g, <<Subtask("A", None, {})>>)
    \/ \E g \in GoalIds(MaxCacheGoals) : GetGoal(g)
    \/ \E t \in TaskIds(MaxCacheTasks) : GetTask(t)
    \/ \E up \in BOOLEAN, fail \in SUBSET CacheCommands : CacheWeather(up, fail)

SpecRead == Init /\ [][NextRead]_vars

\* Every operation that writes, with a cache that comes and goes.
NextOutage ==
    \/ /\ goal_counter < MaxOutageGoals
       /\ CreateGoal("Ship v2", "high")
    \/ \E g \in GoalIds(MaxOutageGoals) :
           /\ task_counter < MaxOutageTasks
           /\ BreakDownGoal(g, <<Subtask("A", None, {})>>)
    \/ \E t \in TaskIds(MaxOutageTasks) : UpdateTaskStatus(t, "completed")
    \/ \E g \in GoalIds(MaxOutageGoals) : UpdateGoal(g, None, "high", None, {}, {})
    \/ \E t \in TaskIds(MaxOutageTasks) : DeleteTask(t)
    \/ \E g \in GoalIds(MaxOutageGoals) : DeleteGoal(g)
    \/ \E up \in BOOLEAN, fail \in SUBSET CacheCommands : CacheWeather(up, fail)

SpecOutage == Init /\ [][NextOutage]_vars

(***************************************************************************)
(* batch_update_tasks and the pool.  The calling thread walks the updates  *)
(* and submits one future per item that has a task_id and a status; the    *)
(* workers of the pool run update_task_status for the items of the work    *)
(* queue, each inside the lock, in any order (the pool has five workers    *)
(* unless configured otherwise, more than a batch of the model has items); *)
(* the calling thread then takes the futures as they complete.             *)
(***************************************************************************)
UpdateItem(task_id, status) == [task_id |-> task_id, status |-> status]

\* As MissingField, for a loop that takes every update for incomplete.
EveryFieldMissing(update) == TRUE

\* not task_id or not status
MissingField(update) ==
    update.task_id \in {None, ""} \/ update.status \in {None, ""}

\* The lines up to the loop over the updates.
BatchUpdateTasks(updates) ==
    /\ batch.pc = "idle"
    /\ batch' = [NoBatch EXCEPT !.pc = IF updates = <<>> THEN "collect"
                                       ELSE "submit",
                                !.updates = updates, !.i = 1]
    /\ UNCHANGED <<goals, tasks, task_keys, goal_counter, task_counter,
                   cache_available, cache_fail, cache_changes, db, cache_entries,
                   cache_full, ret, issued_goals, issued_tasks, scn, lock, pc,
                   local, executor>>

\* One turn of the loop over the updates.  submit raises RuntimeError once
\* the pool is shut down, and nothing in batch_update_tasks catches it.
BatchSubmit ==
    /\ batch.pc = "submit"
    /\ LET update == batch.updates[batch.i]
           after == IF batch.i = Len(batch.updates) THEN "collect" ELSE "submit"
       IN  IF MissingField(update)
           THEN /\ batch' = [batch EXCEPT
                       !.failed = Append(@, [task_id |-> update.task_id,
                                             error |-> "Missing task_id or status"]),
                       !.i = @ + 1, !.pc = after]
                /\ UNCHANGED <<executor, ret>>
           ELSE IF executor.state # "running"
           THEN /\ batch' = NoBatch
                /\ executor' = [executor EXCEPT
                       !.work = [k \in 1..Len(@) |-> [@[k] EXCEPT !.future = 0]]]
                /\ ret' = [op |-> "batch_update_tasks", ok |-> FALSE,
                           error |-> "cannot schedule new futures after shutdown"]
           ELSE /\ batch' = [batch EXCEPT
                       !.futures = Append(@, [task_id |-> update.task_id,
                                              done |-> FALSE, error |-> None]),
                       !.i = @ + 1, !.pc = after]
                /\ executor' = [executor EXCEPT
                       !.work = Append(@, [task_id |-> update.task_id,
                                           status |-> update.status,
                                           future |-> Len(batch.futures) + 1])]
                /\ UNCHANGED ret
    /\ UNCHANGED <<goals, tasks, task_keys, goal_counter, task_counter,
                   cache_available, cache_fail, cache_changes, db, cache_entries,
                   cache_full, issued_goals, issued_tasks, scn, lock, pc, local>>

\* What update_task_status raises for a work item, None when it returns.
UpdateError(item) ==
    IF item.task_id \notin DOMAIN tasks THEN "Task not found"
    ELSE IF item.status \notin TaskStatuses THEN "Invalid status"
    ELSE None

\* A worker takes the k-th item of the work queue and runs update_task_status
\* for it; the outcome goes to the item's future if a caller still holds it.
ExecutorRun(k) ==
    /\ k \in 1..Len(executor.work)
    /\ lock = 0
    /\ LET item == executor.work[k]
       IN  /\ Store([update_task_status(Cache, item.task_id, item.status)
                        EXCEPT !.ret = ret])
           /\ executor' = [executor EXCEPT
                  !.work = SubSeq(@, 1, k - 1) \o SubSeq(@, k + 1, Len(@))]
           /\ batch' = IF item.future = 0 THEN batch
                       ELSE [batch EXCEPT
                                !.futures[item.future].done = TRUE,
                                !.futures[item.future].error = UpdateError(item)]
    /\ scn' = -1

\* One turn of the loop over as_completed: any future that is done and has
\* not been taken yet.  The status reported is the one the task has by now.
BatchCollect(j) ==
    /\ batch.pc = "collect"
    /\ j \in (1..Len(batch.futures)) \ batch.collected
    /\ batch.futures[j].done
    /\ LET future == batch.futures[j]
           task_id == future.task_id
       IN  batch' = [batch EXCEPT
               !.collected = @ \cup {j},
               !.successful =
                   IF future.error # None THEN @
                   ELSE Append(@, [task_id |-> task_id,
                                   status |-> tasks[task_id].status]),
               !.failed =
                   IF future.error = None THEN @
                   ELSE Append(@, [task_id |-> task_id,
                                   error |-> future.error])]
    /\ UNCHANGED <<goals, tasks, task_keys, goal_counter, task_counter,
                   cache_available, cache_fail, cache_changes, db, cache_entries,
                   cache_full, ret, issued_goals, issued_tasks, scn, lock, pc,
                   local, executor>>

\* As AllCollected, for a loop that may stop before the last future.
CollectedSome == TRUE

\* as_completed has yielded every future of the call.
AllCollected == batch.collected = DOMAIN batch.futures

\* The loop over as_completed is over: the buckets are returned.
BatchReturn ==
    /\ batch.pc = "collect"
    /\ AllCollected
    /\ ret' = [op |-> "batch_update_tasks", ok |-> TRUE,
               results |-> [successful |-> batch.successful,
                            failed |-> batch.failed,
                            total |-> Len(batch.updates)]]
    /\ batch' = NoBatch
    /\ UNCHANGED <<goals, tasks, task_keys, goal_counter, task_counter,
                   cache_available, cache_fail, cache_changes, db, cache_entries,
                   cache_full, issued_goals, issued_tasks, scn, lock, pc,
                   local, executor>>

(***************************************************************************)
(* shutdown: ThreadPoolExecutor.shutdown(wait=True, cancel_futures=False)  *)
(* sets the flag that makes submit raise, leaves the queued items to the   *)
(* workers and joins them.                                                 *)
(***************************************************************************)
\* As Drained, for a shutdown that does not wait.
DrainedAtOnce == TRUE

\* The workers can be joined: nothing is queued or running.
Drained == executor.work = <<>>

Shutdown ==
    /\ executor.state = "running"
    /\ executor' = [executor EXCEPT !.state = "shutdown"]
    /\ UNCHANGED <<goals, tasks, task_keys, goal_counter, task_counter,
                   cache_available, cache_fail, cache_changes, db, cache_entries,
                   cache_full, ret, issued_goals, issued_tasks, scn, lock, pc,
                   local, batch>>

ShutdownReturn ==
    /\ executor.state = "shutdown"
    /\ Drained
    /\ executor' = [executor EXCEPT !.state = "terminated"]
    /\ ret' = [op |-> "shutdown", ok |-> TRUE]
    /\ UNCHANGED <<goals, tasks, task_keys, goal_counter, task_counter,
                   cache_available, cache_fail, cache_changes, db, cache_entries,
                   cache_full, issued_goals, issued_tasks, scn, lock, pc,
                   local, batch>>

\* The batches of the model: an empty one, one update, an invalid status
\* before a valid update, a missing task_id before a valid update, two
\* updates of one task, and a valid update followed by an unknown task and
\* a missing status.
BatchLists ==
    { <<>>,
      <<UpdateItem(TaskId(1), "completed")>>,
      <<UpdateItem(TaskId(1), "done"), UpdateItem(TaskId(1), "completed")>>,
      <<UpdateItem(None, "completed"), UpdateItem(TaskId(1), "in_progress")>>,
      <<UpdateItem(TaskId(1), "in_progress"), UpdateItem(TaskId(1), "completed")>>,
      <<UpdateItem(TaskId(1), "completed"),
        UpdateItem(TaskId(MaxBatchTasks + 1), "completed"),
        UpdateItem(TaskId(1), None)>> }

NextBatch ==
    \/ /\ goal_counter < MaxBatchGoals
       /\ CreateGoal("Ship v2", "high")
    \/ \E g \in GoalIds(MaxBatchGoals) :
           /\ task_counter < MaxBatchTasks
           /\ BreakDownGoal(g, <<Subtask("A", None, {})>>)
    \/ \E updates \in BatchLists : BatchUpdateTasks(updates)
    \/ BatchSubmit
    \/ \E k \in DOMAIN executor.work : ExecutorRun(k)
    \/ \E j \in DOMAIN batch.futures : BatchCollect(j)
    \/ BatchReturn
    \/ Shutdown
    \/ ShutdownReturn

SpecBatch == Init /\ [][NextBatch]_vars

(***************************************************************************)
(* Properties.                                                             *)
(***************************************************************************)
\* The tasks a goal owns: those whose goal_id names it.
OwnedTasks(ts, goal_id) == {t \in DOMAIN ts : ts[t].goal_id = goal_id}

AllOwnedCompleted(ts, goal_id) ==
    /\ OwnedTasks(ts, goal_id) # {}
    /\ \A t \in OwnedTasks(ts, goal_id) : ts[t].status = "completed"

\* C1: a call update_task_status(t, "completed") on a task of goal g leaves g
\* completed exactly when g was completed before the call or the call
\* completes the last owned task that was not completed; so in a run of such
\* calls, one per owned task, the goal turns completed once, at the last
\* task, with no update_goal call.
C1_GoalCompletesWithLastTask ==
    [][\A t \in DOMAIN tasks :
          (ret'.op = "update_task_status" /\ UpdateTaskStatus(t, "completed")) =>
              LET g == tasks[t].goal_id
              IN  /\ g \in DOMAIN goals'
                  /\ tasks'[t].status = "completed"
                  /\ goals'[g].status = "completed"
                        <=> \/ goals[g].status = "completed"
                            \/ AllOwnedCompleted(tasks', g)]_vars

\* A goal with two tasks, both completed by update_task_status, that is now
\* completed itself.
C1_Witness ==
    /\ ret.op = "update_task_status" /\ ret.ok
    /\ \E g \in DOMAIN goals :
          /\ goals[g].status = "completed"
          /\ Len(goals[g].tasks) >= 2
          /\ AllOwnedCompleted(tasks, g)

(***************************************************************************)
(* Goals between create_goal and their first break-down.                   *)
(***************************************************************************)
\* A goal as create_goal returns it.
Untouched(goal) == goal.status = "planned" /\ goal.tasks = <<>>

\* The step is a break_down_goal, an update_goal or a delete_goal of goal g.
AppliedToGoal(g) ==
    \/ \E l \in SubtaskLists({Subtask("A", None, {}), Subtask(None, None, {})}) :
           BreakDownGoal(g, l)
    \/ \E st \in {"cancelled", "archived"} : UpdateGoal(g, None, None, st, {}, {})
    \/ DeleteGoal(g)

\* C11: a goal enters the state planned and without tasks, and a goal that is
\* planned and without tasks stays so over every step that is not a
\* break_down_goal, update_goal or delete_goal of that very goal: a step
\* after which it is no longer so is one of these.
C11_PlannedUntilBrokenDown ==
    [][/\ \A g \in (DOMAIN goals') \ DOMAIN goals : Untouched(goals'[g])
       /\ \A g \in DOMAIN goals :
              (Untouched(goals[g])
                  /\ ~(g \in DOMAIN goals' /\ Untouched(goals'[g])))
                      => AppliedToGoal(g)]_vars

\* The first goal is still as create_goal returned it, while the second one
\* was broken down, had its task completed and is completed itself.
C11_Witness ==
    /\ GoalId(1) \in DOMAIN goals /\ Untouched(goals[GoalId(1)])
    /\ GoalId(2) \in DOMAIN goals /\ goals[GoalId(2)].status = "completed"
    /\ ret.op = "update_task_status" /\ ret.ok

(***************************************************************************)
(* What break_down_goal leaves behind.                                     *)
(***************************************************************************)
WellFormed(subtasks) ==
    /\ subtasks # <<>>
    /\ \A i \in 1..Len(subtasks) :
          subtasks[i].description # None /\ Strip(subtasks[i].description) # ""

\* The suffix of a list from position n + 1 on.
Drop(list, n) == SubSeq(list, n + 1, Len(list))

\* C12 as stated: after a successful break_down_goal(g, subtasks) the task
\* list of g is exactly the list of the tasks the call created, each of them
\* a pending task of g, and g is in_progress.
C12_ExactlyNTasks ==
    (ret.op = "break_down_goal" /\ ret.ok) =>
        LET g == ret.goal_id
        IN  /\ g \in DOMAIN goals
            /\ Len(goals[g].tasks) = Len(ret.created)
            /\ goals[g].tasks = ret.created
            /\ goals[g].status = "in_progress"
            /\ \A t \in Range(ret.created) :
                   /\ t \in DOMAIN tasks
                   /\ tasks[t].status = "pending"
                   /\ tasks[t].goal_id = g

\* C12, amended: break_down_goal(g, subtasks) with N well-formed subtasks on
\* an existing goal g appends exactly N ids to the task list of g, which
\* keeps the ids it had; the N ids are distinct, named no task before the
\* call and name pending tasks of g after it; g is in_progress.
C12_AppendsNTasks ==
    [][\A g \in DOMAIN goals :
         \A l \in SubtaskLists({Subtask("A", None, {}), Subtask(None, None, {})}) :
            (WellFormed(l) /\ ret'.op = "break_down_goal" /\ BreakDownGoal(g, l)) =>
                LET old == goals[g].tasks
                    new == Drop(goals'[g].tasks, Len(old))
                IN  /\ Len(goals'[g].tasks) = Len(old) + Len(l)
                    /\ SubSeq(goals'[g].tasks, 1, Len(old)) = old
                    /\ Cardinality(Range(new)) = Len(l)
                    /\ goals'[g].status = "in_progress"
                    /\ \A t \in Range(new) :
                           /\ t \notin DOMAIN tasks
                           /\ t \in DOMAIN tasks'
                           /\ tasks'[t].status = "pending"
                           /\ tasks'[t].goal_id = g]_vars

\* A goal that already had a task was broken down once more: its task list
\* is longer than the list of the tasks the last call created.
C12_Witness ==
    /\ ret.op = "break_down_goal" /\ ret.ok
    /\ Len(ret.created) = 1
    /\ Len(goals[ret.goal_id].tasks) = 2
    /\ goals[ret.goal_id].status = "in_progress"

(***************************************************************************)
(* How a goal becomes completed.                                           *)
(***************************************************************************)
\* C13: a goal turns completed only in a step of update_task_status whose
\* re-check finds every task the goal owns completed; no other call turns
\* it completed.
C13_CompletedOnlyByRecheck ==
    [][\A g \in DOMAIN goals \cap DOMAIN goals' :
          (goals[g].status # "completed" /\ goals'[g].status = "completed") =>
              /\ ret'.op = "update_task_status"
              /\ AllOwnedCompleted(tasks', g)]_vars

(***************************************************************************)
(* Ownership.                                                              *)
(***************************************************************************)
\* How often an id stands in a list.
Occurrences(list, x) == Cardinality({i \in 1..Len(list) : list[i] = x})

\* C14: every task names an existing goal as its goal_id and stands exactly
\* once in that goal's task list and in no other goal's; every id in a
\* goal's task list names an existing task.
C14_Ownership ==
    /\ \A t \in DOMAIN tasks :
          /\ tasks[t].goal_id \in DOMAIN goals
          /\ \A g \in DOMAIN goals :
                 Occurrences(goals[g].tasks, t) =
                     IF g = tasks[t].goal_id THEN 1 ELSE 0
    /\ \A g \in DOMAIN goals : Range(goals[g].tasks) \subseteq DOMAIN tasks

\* Two goals were broken down, each into one task; the task of the first was
\* deleted and left its list, the task of the second is still owned.
C14_Witness ==
    /\ ret.op = "delete_task" /\ ret.ok /\ ret.task_id = TaskId(1)
    /\ DOMAIN goals = {GoalId(1), GoalId(2)}
    /\ goals[ret.goal_id].tasks = <<>>
    /\ \E g \in DOMAIN goals : goals[g].tasks = <<TaskId(2)>>

(***************************************************************************)
(* Identifiers.                                                            *)
(***************************************************************************)
\* The number an id ends in.
GoalNumber(goal_id) == CHOOSE n \in 0..9999 : GoalId(n) = goal_id
TaskNumber(task_id) == CHOOSE n \in 0..9999 : TaskId(n) = task_id

RECURSIVE Maximum(_)
\* The greatest number of a finite set of naturals, 0 for the empty set.
Maximum(S) ==
    IF S = {} THEN 0
    ELSE LET x == CHOOSE y \in S : TRUE
             m == Maximum(S \ {x})
         IN  IF x > m THEN x ELSE m

NoRepeats(ids) ==
    \A i, j \in 1..Len(ids) : i # j => ids[i] # ids[j]

\* C8: whatever the interleaving of the threads' create_goal and
\* break_down_goal calls and of the deletions between them, no goal id and no
\* task id is handed out twice.
C8_IdsNeverReissued ==
    /\ NoRepeats(issued_goals)
    /\ NoRepeats(issued_tasks)

\* Two goals and a task were created, the first goal and the task are
\* deleted, and the id of the goal was not used again; a thread holds the
\* lock in the middle of "self.task_counter += 1", on its way to the second
\* task id, and keeps the other threads out.
C8_Witness ==
    /\ issued_goals = <<GoalId(1), GoalId(2)>>
    /\ issued_tasks = <<TaskId(1)>>
    /\ GoalId(1) \notin DOMAIN goals
    /\ TaskId(1) \notin DOMAIN tasks
    /\ \E t, u \in Threads :
           /\ lock = t /\ pc[t] = "store" /\ local[t].op = "break_down_goal"
           /\ local[t].n = 1
           /\ u # t /\ pc[u] = "idle"

\* C7: after a restart each counter is the greatest numeric suffix among the
\* recovered ids of its type, 0 when there are none.
C7_CountersAreMaxSuffix ==
    ret.op = "restart" =>
        /\ goal_counter = Maximum({GoalNumber(g) : g \in DOMAIN goals})
        /\ task_counter = Maximum({TaskNumber(t) : t \in DOMAIN tasks})

\* C9: a successful delete_task(t) returns as dependent_tasks exactly the
\* other tasks whose dependencies hold t, and those tasks are still there.
C9_DependentsAreOtherTasks ==
    (ret.op = "delete_task" /\ ret.ok) =>
        /\ ret.task_id \notin DOMAIN tasks
        /\ Range(ret.dependent_tasks) =
              {u \in DOMAIN tasks : ret.task_id \in tasks[u].dependencies}

QueueReturned == ret.op = "get_next_tasks" /\ ret.ok

\* The tasks get_next_tasks is asked about: those of the goal, or all.
QueueScope ==
    IF ret.goal_id = None THEN DOMAIN tasks ELSE OwnedTasks(tasks, ret.goal_id)

Ready(t) ==
    /\ tasks[t].status = "pending"
    /\ \A d \in tasks[t].dependencies :
          d \in DOMAIN tasks /\ tasks[d].status = "completed"

\* C3: get_next_tasks returns, once each, exactly the tasks in its scope that
\* are pending and whose every dependency names an existing completed task.
C3_NextTasksExact ==
    QueueReturned =>
        /\ Range(ret.value) = {t \in QueueScope : Ready(t)}
        /\ Len(ret.value) = Cardinality(Range(ret.value))

\* A call for one goal that returns a task with a dependency, while a task
\* of another goal is left out.
C3_Witness ==
    /\ QueueReturned
    /\ ret.goal_id # None
    /\ \E t \in Range(ret.value) : tasks[t].dependencies # {}
    /\ (DOMAIN tasks) \ QueueScope # {}

RankOf(t) ==
    IF tasks[t].priority = "high" THEN 0
    ELSE IF tasks[t].priority = "medium" THEN 1 ELSE 2

\* The place of task t in the order of creation.
CreatedAt(t) == CHOOSE i \in 1..Len(issued_tasks) : issued_tasks[i] = t

\* C4: the returned tasks are in the order high, medium, low, and two of the
\* same priority are in the order of their creation.
C4_NextTasksOrdered ==
    QueueReturned =>
        \A i, j \in 1..Len(ret.value) :
            i < j =>
                \/ RankOf(ret.value[i]) < RankOf(ret.value[j])
                \/ /\ RankOf(ret.value[i]) = RankOf(ret.value[j])
                   /\ CreatedAt(ret.value[i]) < CreatedAt(ret.value[j])

\* Three returned tasks, two of one priority with a task created between
\* them that the sort has moved in front of both.
C4_Witness ==
    /\ QueueReturned
    /\ Len(ret.value) >= 3
    /\ RankOf(ret.value[2]) = RankOf(ret.value[3])
    /\ CreatedAt(ret.value[2]) < CreatedAt(ret.value[1])
    /\ CreatedAt(ret.value[1]) < CreatedAt(ret.value[3])

\* C10: the end-to-end scenario.  After create_goal("Ship v2", "high") the
\* only goal is GOAL-0001, planned; after the break-down into A and B (B
\* depending on TASK-0001) the tasks are TASK-0001 and TASK-0002, the goal is
\* in_progress and get_next_tasks("GOAL-0001") returns TASK-0001 only; after
\* TASK-0001 is completed it returns TASK-0002 only; after TASK-0002 is
\* completed the goal is completed.
C10_Scenario ==
    LET next_returned == QueueReturned /\ ret.goal_id = "GOAL-0001"
    IN  /\ scn = 1 =>
              /\ ret.op = "create_goal" => ret.ok /\ ret.id = "GOAL-0001"
              /\ DOMAIN goals = {"GOAL-0001"}
              /\ goals["GOAL-0001"].status = "planned"
        /\ scn \in {2, 3, 4} =>
              /\ DOMAIN goals = {"GOAL-0001"}
              /\ goals["GOAL-0001"].tasks = <<"TASK-0001", "TASK-0002">>
              /\ DOMAIN tasks = {"TASK-0001", "TASK-0002"}
              /\ tasks["TASK-0001"].dependencies = {}
              /\ tasks["TASK-0002"].dependencies = {"TASK-0001"}
        /\ scn = 2 =>
              /\ goals["GOAL-0001"].status = "in_progress"
              /\ next_returned => ret.value = <<"TASK-0001">>
        /\ scn = 3 =>
              /\ goals["GOAL-0001"].status = "in_progress"
              /\ next_returned => ret.value = <<"TASK-0002">>
        /\ scn = 4 => goals["GOAL-0001"].status = "completed"

\* The scenario has run to its end and the ready queue has been read.
C10_Witness ==
    /\ scn = 4
    /\ QueueReturned /\ ret.goal_id = "GOAL-0001" /\ ret.value = <<>>

(***************************************************************************)
(* Plans.                                                                  *)
(***************************************************************************)
PlanReturned == ret.op = "generate_execution_plan" /\ ret.ok

\* The number of the phase of plan that holds task t.
PhaseOf(plan, t) ==
    CHOOSE i \in 1..Len(plan.execution_phases) :
        t \in Range(plan.execution_phases[i].tasks)

\* The dependencies of t that are tasks of goal g.
InGoalDependencies(g, t) == tasks[t].dependencies \cap OwnedTasks(tasks, g)

RECURSIVE ReachableIn(_, _, _)
\* The tasks of goal g reached from the set from in at most n dependency
\* steps, the tasks of from included.
ReachableIn(g, from, n) ==
    IF n = 0 THEN from
    ELSE ReachableIn(g, from \cup UNION {InGoalDependencies(g, t) : t \in from},
                     n - 1)

\* The tasks t depends on, directly or not.
DependsOn(g, t) ==
    ReachableIn(g, InGoalDependencies(g, t), Cardinality(OwnedTasks(tasks, g)))

OnCycle(g, t) == t \in DependsOn(g, t)

\* The tasks no order can place: those on a dependency cycle and those that
\* depend on one of them.
Unplaceable(g) ==
    {t \in OwnedTasks(tasks, g) :
        OnCycle(g, t) \/ \E u \in DependsOn(g, t) : OnCycle(g, u)}

\* C2: in a returned plan, every task placed in a phase that carries no
\* warning has each of its dependencies among the goal's tasks in a phase
\* with a strictly smaller number.
C2_DependenciesInEarlierPhase ==
    PlanReturned =>
        \A i \in 1..Len(ret.plan.execution_phases) :
            ~ret.plan.execution_phases[i].warning =>
                \A t \in Range(ret.plan.execution_phases[i].tasks) :
                    \A d \in InGoalDependencies(ret.goal_id, t) :
                        PhaseOf(ret.plan, d) < i

\* C5: when the goal's tasks hold a dependency cycle, the last phase of the
\* plan, and no other, carries the warning, and its tasks are exactly the
\* tasks that no order can place; without a cycle no phase carries it.
C5_WarningIffCycle ==
    PlanReturned =>
        LET phases == ret.plan.execution_phases
            stuck == Unplaceable(ret.goal_id)
        IN  /\ \A i \in 1..Len(phases) :
                   phases[i].warning <=> (stuck # {} /\ i = Len(phases))
            /\ stuck # {} =>
                   /\ phases # <<>>
                   /\ Range(phases[Len(phases)].tasks) = stuck
                   /\ Len(phases[Len(phases)].tasks) = Cardinality(stuck)

\* A plan of three tasks or more with a placed task, a two-task cycle and a
\* warning phase.
C5_Witness ==
    /\ PlanReturned
    /\ ret.plan.total_tasks >= 3
    /\ ret.plan.total_phases >= 2
    /\ ret.plan.execution_phases[ret.plan.total_phases].warning
    /\ \E t \in OwnedTasks(tasks, ret.goal_id) :
          OnCycle(ret.goal_id, t) /\ t \notin tasks[t].dependencies

\* C6: the extraction loop of a plan for N tasks ends by its own condition
\* after at most N + 1 iterations.
C6_PlanTerminates ==
    PlanReturned => ret.plan.iterations <= ret.plan.total_tasks + 1

\* A plan whose loop ran once per task: productive passes, then the pass
\* that places nothing and ends the loop.
C6_Witness ==
    /\ PlanReturned
    /\ ret.plan.total_tasks >= 3
    /\ ret.plan.iterations = ret.plan.total_tasks
    /\ ret.plan.execution_phases[ret.plan.total_phases].warning

\* The goals that the step removes: only delete_goal removes a goal.
DeletedGoals == (DOMAIN goals) \ (DOMAIN goals')

\* The cache keys of goal g and of the tasks it lists.
EntityKeys(g) ==
    {get_cache_key("goal", g)} \cup
    {get_cache_key("task", t) : t \in Range(goals[g].tasks)}

\* What delete_goal(g) does to self.goals and self.tasks: g and the tasks it
\* owns are gone, every other goal and task is as it was.
DeleteGoalCascades(g) ==
    /\ ret' = [op |-> "delete_goal", ok |-> TRUE]
    /\ DOMAIN goals' = (DOMAIN goals) \ {g}
    /\ \A h \in DOMAIN goals' : goals'[h] = goals[h]
    /\ DOMAIN tasks' = {t \in DOMAIN tasks : tasks[t].goal_id # g}
    /\ \A t \in DOMAIN tasks' : tasks'[t] = tasks[t]

WorkWithout(k) ==
    SubSeq(executor.work, 1, k - 1) \o
    SubSeq(executor.work, k + 1, Len(executor.work))

\* An item that cannot succeed whenever it runs: a field is missing, the
\* status is not a task status, or no task has been given that id.
HopelessItem(update) ==
    \/ MissingField(update)
    \/ update.status \notin TaskStatuses
    \/ update.task_id \notin Range(issued_tasks')

Count(list, P(_)) == Cardinality({i \in DOMAIN list : P(list[i])})

\* The call returns its buckets: every item is in one of them.
BatchReturnsEveryItem ==
    (batch.pc = "collect" /\ batch'.pc = "idle") =>
        /\ ret'.op = "batch_update_tasks" /\ ret'.ok
        /\ ret'.results.total = Len(batch.updates)
        /\ Len(ret'.results.successful) + Len(ret'.results.failed)
               = Len(batch.updates)
        /\ Len(ret'.results.failed) >= Count(batch.updates, HopelessItem)
        /\ \A i \in DOMAIN ret'.results.successful :
               LET entry == ret'.results.successful[i]
               IN  /\ entry.task_id \in DOMAIN tasks
                   /\ entry.status \in TaskStatuses

\* The call is given up only by a pool that has been shut down.
BatchAbortsOnlyOnShutdown ==
    (batch.pc = "submit" /\ batch'.pc = "idle") =>
        /\ executor.state # "running"
        /\ ~MissingField(batch.updates[batch.i])

\* A queued item that can be applied is applied when its turn comes, whatever
\* became of the other items; one that cannot be applied changes nothing.
BatchItemRunsAlone ==
    \A k \in DOMAIN executor.work :
        executor'.work = WorkWithout(k) =>
            LET item == executor.work[k]
            IN  IF UpdateError(item) = None
                THEN /\ DOMAIN tasks' = DOMAIN tasks
                     /\ tasks'[item.task_id].status = item.status
                     /\ \A t \in (DOMAIN tasks) \ {item.task_id} :
                            tasks'[t] = tasks[t]
                ELSE tasks' = tasks /\ goals' = goals

\* Nothing but the run of an item changes a task while a call is in progress.
BatchUndoesNothing ==
    (batch.pc # "idle" /\ executor'.work = executor.work /\ tasks' # tasks) =>
        /\ DOMAIN tasks \subseteq DOMAIN tasks'
        /\ \A t \in DOMAIN tasks : tasks'[t] = tasks[t]

\* C16: batch_update_tasks never fails as a whole because of one item: when it
\* returns, every item of the input is in exactly one of the two buckets
\* (|successful| + |failed| = total), and an item that fails (unknown task,
\* invalid status, missing task_id or status) neither prevents nor undoes
\* the application of another item.
C16_BatchItemsIndependent ==
    [][/\ BatchReturnsEveryItem
       /\ BatchAbortsOnlyOnShutdown
       /\ BatchItemRunsAlone
       /\ BatchUndoesNothing]_vars

\* A batch of a valid update, an unknown task and a missing status has
\* returned one success and two failures, and the valid update is applied.
C16_Witness ==
    /\ ret.op = "batch_update_tasks" /\ ret.ok
    /\ ret.results.total = 3
    /\ ret.results.successful =
           <<[task_id |-> TaskId(1), status |-> "completed"]>>
    /\ Len(ret.results.failed) = 2
    /\ TaskId(1) \in DOMAIN tasks
    /\ tasks[TaskId(1)].status = "completed"
    /\ executor.state = "running"

\* The calls of SpecOutage, calls that fail validation, and reads.
OutageCalls ==
    {[op |-> "create_goal", a |-> d, b |-> "high"] : d \in {"Ship v2", " "}}
    \cup {[op |-> "break_down_goal", a |-> g, b |-> <<Subtask("A", None, {})>>] :
              g \in GoalIds(MaxOutageGoals + 1)}
    \cup {[op |-> "update_task_status", a |-> t, b |-> st] :
              t \in TaskIds(MaxOutageTasks), st \in {"completed", "done"}}
    \cup {[op |-> "update_goal", a |-> g, b |-> p] :
              g \in GoalIds(MaxOutageGoals), p \in {"high", "low"}}
    \cup {[op |-> "delete_task", a |-> t, b |-> None] :
              t \in TaskIds(MaxOutageTasks)}
    \cup {[op |-> "delete_goal", a |-> g, b |-> None] :
              g \in GoalIds(MaxOutageGoals)}
    \cup {[op |-> "get_goal", a |-> g, b |-> None] :
              g \in GoalIds(MaxOutageGoals)}
    \cup {[op |-> "get_task", a |-> t, b |-> None] :
              t \in TaskIds(MaxOutageTasks)}

\* The call made with the cache c.
Run(c, call) ==
    CASE call.op = "create_goal" -> create_goal(c, call.a, call.b)
      [] call.op = "break_down_goal" -> break_down_goal(c, call.a, call.b)
      [] call.op = "update_task_status" -> update_task_status(c, call.a, call.b)
      [] call.op = "update_goal" -> update_goal(c, call.a, None, call.b, None, {}, {})
      [] call.op = "delete_task" -> delete_task(c, call.a)
      [] call.op = "delete_goal" -> delete_goal(c, call.a)
      [] call.op = "get_goal" -> [Now(c) EXCEPT !.ret = get_goal(c, call.a)]
      [] call.op = "get_task" -> [Now(c) EXCEPT !.ret = get_task(c, call.a)]

\* What a call leaves of interest to its caller: whether it succeeded, and
\* the authoritative goals, tasks and counters.
Outcome(n) ==
    [ok |-> Returned(n).ok, goals |-> n.goals, tasks |-> n.tasks,
     task_keys |-> n.task_keys, goal_counter |-> n.goal_counter,
     task_counter |-> n.task_counter]

ReadReturns ==
    /\ ret' # ret
    /\ ret'.op \in {"get_goal", "get_task"}
    /\ ret'.ok

\* The entity a read returns, without what the read adds to it.
EntityRead ==
    IF ret'.op = "get_goal" THEN ret'.result.goal ELSE ret'.result.task

\* C18: a read of a goal or of a task checks the cache first: on a hit it
\* returns the cached copy marked served_from: cache; on a miss it reads the
\* authoritative store, populates the cache with the entity before returning
\* and marks the result served_from: store.
C18_ReadThroughCache ==
    [][ReadReturns =>
          LET key == ret'.result._cache_status.key
          IN  /\ "served_from" \in DOMAIN ret'.result
              /\ IF cache_available /\ key \in DOMAIN cache_entries
                 THEN /\ ret'.result.served_from = "cache"
                      /\ EntityRead = cache_entries[key]
                 ELSE /\ ret'.result.served_from = "store"
                      /\ (cache_available /\ "set" \notin cache_fail)
                             => key \in DOMAIN cache_entries']_vars

\* The step is a turn of the submission loop at an item that has both fields.
SubmissionAttempted ==
    /\ batch.pc = "submit"
    /\ batch'.pc # "submit" \/ batch'.i # batch.i
    /\ ~MissingField(batch.updates[batch.i])

\* Once shutdown has been called the queue takes no new item, and an attempt
\* to submit ends the call with an error and runs nothing.
RefusedAfterShutdown ==
    executor.state # "running" =>
        /\ Len(executor'.work) <= Len(executor.work)
        /\ SubmissionAttempted =>
               /\ ret'.op = "batch_update_tasks" /\ ~ret'.ok
               /\ Len(executor'.work) = Len(executor.work)
               /\ tasks' = tasks /\ goals' = goals

\* Shutdown drops nothing: the call leaves the queue as it is, and an item
\* leaves the queue only one at a time, by being run.
NothingCancelled ==
    /\ executor'.state # executor.state => executor'.work = executor.work
    /\ executor'.state = executor.state =>
           Len(executor'.work) >= Len(executor.work) - 1

\* C19: on shutdown the pool is drained: shutdown returns only after every
\* item submitted before it has run to completion, and a submission attempted
\* after shutdown is refused rather than executed.
C19_ShutdownDrains ==
    /\ [](executor.state = "terminated" => executor.work = <<>>)
    /\ [][RefusedAfterShutdown /\ NothingCancelled]_vars

\* shutdown has been called and waits for the one item that was submitted
\* before it; the submission of the next item of the batch has been refused.
C19_Witness ==
    /\ executor.state = "shutdown"
    /\ Len(executor.work) = 1
    /\ ret.op = "batch_update_tasks" /\ ~ret.ok
    /\ batch = NoBatch

\* Descriptions and priorities a caller may pass to create_goal, and the
\* ones among them that are acceptable.
CreateDescriptions == {"Ship v2", " Ship v2 ", "", " ", None}
CreatePriorities == {"high", "medium", "low", "urgent", None}
NotBlank == {"Ship v2", " Ship v2 "}

\* create_goal succeeds on exactly the acceptable arguments.
CreateGoalValidates ==
    \A d \in CreateDescriptions, p \in CreatePriorities :
        create_goal(Cache, d, p).ret.ok
            <=> (d \in NotBlank /\ p \in {"high", "medium", "low"})

\* The step is a call of create_goal.
CreateGoalStep ==
    /\ ret'.op = "create_goal"
    /\ ret' # ret \/ goal_counter' # goal_counter

\* A failed call leaves goals, tasks and the goal counter alone; a successful
\* one takes the next id and stores a planned goal without tasks under it.
CreateGoalEffect ==
    IF ~ret'.ok
    THEN goals' = goals /\ tasks' = tasks /\ goal_counter' = goal_counter
    ELSE /\ goal_counter' = goal_counter + 1
         /\ ret'.id = GoalId(goal_counter + 1)
         /\ ret'.id \notin DOMAIN goals
         /\ DOMAIN goals' = DOMAIN goals \cup {ret'.id}
         /\ \A g \in DOMAIN goals : goals'[g] = goals[g]
         /\ goals'[ret'.id].status = "planned"
         /\ goals'[ret'.id].tasks = <<>>
         /\ goals'[ret'.id].description = "Ship v2"
         /\ goals'[ret'.id].priority \in Priorities
         /\ tasks' = tasks

\* C20: create_goal with a blank (empty or whitespace-only) description or a
\* priority outside {high, medium, low} fails with a validation error and
\* leaves the goals, the tasks and the goal counter unchanged, so that no id
\* is consumed; otherwise it allocates the next goal id and stores the goal.
C20_CreateGoalValidates ==
    /\ []CreateGoalValidates
    /\ [][CreateGoalStep => CreateGoalEffect]_vars

\* GOAL-0001 exists, and a call of create_goal has just failed without
\* consuming an id.
C20_Witness ==
    /\ ret = [op |-> "create_goal", ok |-> FALSE]
    /\ goal_counter = 1
    /\ DOMAIN goals = {GoalId(1)}
    /\ issued_goals = <<GoalId(1)>>

(***************************************************************************)
(* The MCP tools.  Each tool calls the operation of the agent inside       *)
(* handle_errors, which turns an exception into a JSON object with the     *)
(* fields error and type.  Every check of the agent raises ValueError.     *)
(***************************************************************************)
ValueError(message) == [class |-> "ValueError", message |-> message]

\* The call returns.
NoError == [class |-> "None", message |-> ""]

GoalNotFound(goal_id) == ValueError("Goal " \o goal_id \o " not found")
TaskNotFound(task_id) == ValueError("Task " \o task_id \o " not found")

\* The fields of an update_goal call.
GoalFields(description, priority, status) ==
    [description |-> description, priority |-> priority, status |-> status]

\* The raise statement an operation of the agent ends in when it is called
\* with id and arg in the present state; NoError when it reaches none.
Raised(op, id, arg) ==
    CASE op = "break_down_goal" ->
             IF id \notin DOMAIN goals THEN GoalNotFound(id)
             ELSE IF arg = <<>>
             THEN ValueError("At least one subtask must be provided")
             ELSE IF \E i \in 1..Len(arg) :
                         arg[i].description = None \/ arg[i].description = ""
             THEN ValueError("Each subtask must have a description")
             ELSE NoError
      [] op = "update_task_status" ->
             IF id \notin DOMAIN tasks THEN TaskNotFound(id)
             ELSE IF arg \notin TaskStatuses
             THEN ValueError("Invalid status: " \o arg)
             ELSE NoError
      [] op = "update_goal" ->
             IF id \notin DOMAIN goals THEN GoalNotFound(id)
             ELSE IF arg.description \notin {None, ""}
                     /\ Strip(arg.description) = ""
             THEN ValueError("Description cannot be empty")
             ELSE IF arg.priority \notin {None, ""} \cup Priorities
             THEN ValueError("Priority must be 'high', 'medium', or 'low'")
             ELSE IF arg.status \notin {None, ""} \cup GoalStatuses
             THEN ValueError("Invalid status: " \o arg.status)
             ELSE NoError
      [] op \in {"get_goal", "delete_goal", "generate_execution_plan"} ->
             IF id \notin DOMAIN goals THEN GoalNotFound(id) ELSE NoError
      [] op \in {"get_task", "delete_task"} ->
             IF id \notin DOMAIN tasks THEN TaskNotFound(id) ELSE NoError
      [] op = "get_next_tasks" ->
             IF id \notin {None, ""} /\ id \notin DOMAIN goals
             THEN GoalNotFound(id) ELSE NoError

\* What the operation of the agent does and returns.
Operation(op, id, arg) ==
    CASE op = "break_down_goal" -> break_down_goal(Cache, id, arg)
      [] op = "update_task_status" -> update_task_status(Cache, id, arg)
      [] op = "update_goal" ->
             update_goal(Cache, id, arg.description, arg.priority, arg.status,
                         {}, {})
      [] op = "delete_goal" -> delete_goal(Cache, id)
      [] op = "delete_task" -> delete_task(Cache, id)
      [] op = "get_goal" -> [Now(Cache) EXCEPT !.ret = get_goal(Cache, id)]
      [] op = "get_task" -> [Now(Cache) EXCEPT !.ret = get_task(Cache, id)]
      [] op = "get_next_tasks" ->
             [Now(Cache) EXCEPT !.ret =
                 IF id \notin {None, ""} /\ id \notin DOMAIN goals
                 THEN [op |-> op, ok |-> FALSE]
                 ELSE [op |-> op, ok |-> TRUE, goal_id |-> id,
                       value |-> get_next_tasks(goals, tasks, task_keys, id)]]
      [] op = "generate_execution_plan" ->
             [Now(Cache) EXCEPT !.ret =
                 IF id \notin DOMAIN goals THEN [op |-> op, ok |-> FALSE]
                 ELSE [op |-> op, ok |-> TRUE, goal_id |-> id,
                       plan |-> generate_execution_plan(goals, tasks, id)]]

\* handle_errors: "except ValueError" answers with the type validation, the
\* last clause, "except Exception", with the type unexpected.
handle_errors(func, e) ==
    IF e.class = "ValueError"
    THEN [error |-> "Validation error in " \o func \o ": " \o e.message,
          type |-> "validation"]
    ELSE [error |-> "Unexpected error in " \o func \o ": " \o e.message,
          type |-> "unexpected"]

\* A tool is called: the operation runs, and what it raises is answered by
\* handle_errors.
Tool(op, id, arg) ==
    LET e == Raised(op, id, arg)
        n == Operation(op, id, arg)
    IN  /\ scn' = -1
        /\ Apply([n EXCEPT !.ret =
                     IF e = NoError THEN @
                     ELSE [op |-> op, ok |-> FALSE, id |-> id, raised |-> e,
                           answer |-> handle_errors(op, e)]])

MaxToolGoals == 1
MaxToolTasks == 2

\* The tools that take the id of a goal, and those that take the id of a task.
GoalTools == {"get_goal", "delete_goal", "generate_execution_plan",
              "get_next_tasks"}
TaskTools == {"get_task", "delete_task"}

NextTools ==
    \/ /\ goal_counter < MaxToolGoals
       /\ CreateGoal("Ship v2", "high")
    \/ \E g \in GoalIds(MaxToolGoals + 1),
          l \in SubtaskLists({Subtask("A", None, {}), Subtask(None, None, {})}) :
           /\ task_counter + Len(l) <= MaxToolTasks
           /\ Tool("break_down_goal", g, l)
    \/ \E t \in TaskIds(MaxToolTasks + 1), st \in {"completed", "done"} :
           Tool("update_task_status", t, st)
    \/ \E g \in GoalIds(MaxToolGoals + 1), d \in {None, " "},
          st \in {None, "cancelled", "archived"} :
           Tool("update_goal", g, GoalFields(d, None, st))
    \/ \E op \in GoalTools, g \in GoalIds(MaxToolGoals + 1) : Tool(op, g, None)
    \/ \E op \in TaskTools, t \in TaskIds(MaxToolTasks + 1) : Tool(op, t, None)

SpecTools == Init /\ [][NextTools]_vars

\* The tool has answered with an error.
ToolFailed == ret.op # "init" /\ ~ret.ok /\ "answer" \in DOMAIN ret

\* What the operations raise for an id that names nothing.
NotFoundErrors ==
    {GoalNotFound(g) : g \in GoalIds(MaxToolGoals + 1)}
        \cup {TaskNotFound(t) : t \in TaskIds(MaxToolTasks + 1)}

\* The error kinds the tools answer malformed input with: an empty subtask
\* list, a subtask without a description, an invalid status.
MalformedKinds ==
    {handle_errors(op, ValueError(m)).type :
        op \in {"break_down_goal", "update_task_status", "update_goal"},
        m \in {"At least one subtask must be provided",
               "Each subtask must have a description",
               "Invalid status: done"}}

\* C21: a tool called with the id of a goal or of a task that does not exist
\* answers with an error kind of its own, which is none of the kinds that
\* malformed input is answered with.
C21_NotFoundIsItsOwnKind ==
    (ToolFailed /\ ret.raised \in NotFoundErrors)
        => ret.answer.type \notin MalformedKinds

\* The tools answer when, and only when, the operation fails.
ToolAnswersFailures ==
    [][\A op \in GoalTools \cup TaskTools
                 \cup {"break_down_goal", "update_task_status", "update_goal"} :
          ret'.op = op => (ret'.ok <=> "answer" \notin DOMAIN ret')]_vars

(***************************************************************************)
(* The store: DatabaseManager of servers/database.py, with the rows of its *)
(* two tables.  Columns that no update assigns (type, repo, jira_ticket,   *)
(* estimated_effort, assigned_tools, created_at) and updated_at are left   *)
(* out.  An optional list, dictionary or date is a set with the value,     *)
(* empty for None.                                                         *)
(***************************************************************************)
GoalModel(description, priority, status, repos, meta_data) ==
    [description |-> description, priority |-> priority, status |-> status,
     repos |-> repos, meta_data |-> meta_data]

TaskModel(goal_id, description, status, priority, dependencies) ==
    [goal_id |-> goal_id, description |-> description, status |-> status,
     priority |-> priority, dependencies |-> dependencies,
     completed_at |-> {}, result |-> {}]

\* DatabaseManager.create_goal: the insert fails on an id that is taken, and
\* the session is rolled back.
db_create_goal(d, goal_id, description, priority, repos, metadata) ==
    IF goal_id \in DOMAIN d.goals THEN d
    ELSE [d EXCEPT !.goals = Put(@, goal_id,
                       GoalModel(description, priority, "planned", repos,
                                 metadata))]

\* DatabaseManager.create_task
db_create_task(d, task_id, goal_id, description, priority, dependencies) ==
    IF task_id \in DOMAIN d.tasks THEN d
    ELSE [d EXCEPT !.tasks = Put(@, task_id,
                       TaskModel(goal_id, description, "pending", priority,
                                 dependencies))]

\* As Assigned, for an update that writes the column whether or not a value
\* was given.
AssignedAlways(old, value) == value

\* "if value is not None: row.column = value", for a value that is a string.
Assigned(old, value) == IF value = None THEN old ELSE value

\* The same for a list given to a column that always holds one.
AssignedJson(old, value) == IF value = {} THEN old ELSE CHOOSE v \in value : TRUE

\* The same for a value given to a column that may hold none.
AssignedNullable(old, value) == IF value = {} THEN old ELSE value

\* DatabaseManager.update_goal on a row that exists.  A dictionary that is
\* there and not empty is updated in place; flushed tells whether the session
\* writes that change, and the row is read back after the flush.
db_update_goal(d, goal_id, description, priority, status, repos, metadata, flushed) ==
    LET goal == d.goals[goal_id]
        meta_data ==
            IF metadata = {} THEN goal.meta_data
            ELSE IF goal.meta_data # EmptyDict
            THEN IF flushed
                 THEN DictUpdate(goal.meta_data, CHOOSE m \in metadata : TRUE)
                 ELSE goal.meta_data
            ELSE CHOOSE m \in metadata : TRUE
    IN  [d EXCEPT !.goals[goal_id] =
            [goal EXCEPT !.description = Assigned(@, description),
                         !.priority = Assigned(@, priority),
                         !.status = Assigned(@, status),
                         !.repos = AssignedJson(@, repos),
                         !.meta_data = meta_data]]

\* DatabaseManager.update_task on a row that exists.
db_update_task(d, task_id, status, result, completed_at) ==
    [d EXCEPT !.tasks[task_id] =
        [@ EXCEPT !.status = Assigned(@, status),
                  !.result = AssignedNullable(@, result),
                  !.completed_at = AssignedNullable(@, completed_at)]]

\* The agent, which the store never touches.
agent == <<goals, tasks, task_keys, goal_counter, task_counter,
           cache_available, cache_fail, cache_changes, cache_entries,
           cache_full, issued_goals, issued_tasks, scn, lock, pc, local,
           executor, batch>>

DbCreateGoal(goal_id, description, priority, repos, metadata) ==
    /\ db' = db_create_goal(db, goal_id, description, priority, repos, metadata)
    /\ ret' = [op |-> "db.create_goal", ok |-> goal_id \notin DOMAIN db.goals]
    /\ UNCHANGED agent

DbCreateTask(task_id, goal_id, description, priority, dependencies) ==
    /\ db' = db_create_task(db, task_id, goal_id, description, priority,
                            dependencies)
    /\ ret' = [op |-> "db.create_task", ok |-> task_id \notin DOMAIN db.tasks]
    /\ UNCHANGED agent

\* "if not goal: return None"
DbUpdateGoal(goal_id, description, priority, status, repos, metadata, flushed) ==
    /\ IF goal_id \notin DOMAIN db.goals
       THEN /\ ret' = [op |-> "db.update_goal", ok |-> FALSE]
            /\ UNCHANGED db
       ELSE /\ db' = db_update_goal(db, goal_id, description, priority, status,
                                    repos, metadata, flushed)
            /\ ret' = [op |-> "db.update_goal", ok |-> TRUE]
    /\ UNCHANGED agent

\* "if not task: return None"
DbUpdateTask(task_id, status, result, completed_at) ==
    /\ IF task_id \notin DOMAIN db.tasks
       THEN /\ ret' = [op |-> "db.update_task", ok |-> FALSE]
            /\ UNCHANGED db
       ELSE /\ db' = db_update_task(db, task_id, status, result, completed_at)
            /\ ret' = [op |-> "db.update_task", ok |-> TRUE]
    /\ UNCHANGED agent

(***************************************************************************)
(* Updates of goals and of tasks, in the agent and in the store.  The two  *)
(* share no state, so each is followed from the start on its own.          *)
(***************************************************************************)
MaxFrameGoals == 2
MaxFrameTasks == 1
MaxStoreRows == 3

\* The fields of an update of a goal.
Fields(description, priority, status, repos, metadata) ==
    [description |-> description, priority |-> priority, status |-> status,
     repos |-> repos, metadata |-> metadata]

Owner == [k \in {"owner"} |-> "ann"]
NewOwner == [k \in {"owner"} |-> "bob"]

\* The updates of a goal of the agent: the description alone, the other
\* four fields, the fields with a value that is empty, and a description
\* next to a priority that is none.
GoalUpdates ==
    { Fields("Ship v3", None, None, {}, {}),
      Fields(None, "low", "cancelled", {<<"api">>}, {Owner}),
      Fields("", "", "", {<<>>}, {EmptyDict}),
      Fields("Ship v3", "urgent", None, {<<"api">>}, {}) }

\* The updates of a goal of the store: the four columns other than the
\* metadata, and the metadata alone.
StoreGoalUpdates ==
    { Fields("Ship v3", "low", "cancelled", {<<"api">>}, {}),
      Fields(None, None, None, {}, {Owner}),
      Fields(None, None, None, {}, {NewOwner}) }

\* The updates of a task of the store.
TaskUpdates ==
    { [status |-> "completed", result |-> {}, completed_at |-> {}],
      [status |-> None, result |-> {Owner}, completed_at |-> {1}] }

StoreUntouched == db = [goals |-> EmptyDict, tasks |-> EmptyDict]
AgentUntouched == goal_counter = 0

\* The rows of the two tables of the store.
StoreRows == Cardinality(DOMAIN db.goals) + Cardinality(DOMAIN db.tasks)

NextFrame ==
    \/ /\ StoreUntouched
       /\ goal_counter < MaxFrameGoals
       /\ CreateGoal("Ship v2", "high")
    \/ /\ StoreUntouched
       /\ task_counter < MaxFrameTasks
       /\ BreakDownGoal(GoalId(1), <<Subtask("A", None, {})>>)
    \/ \E g \in GoalIds(MaxFrameGoals), u \in GoalUpdates :
           /\ StoreUntouched
           /\ UpdateGoal(g, u.description, u.priority, u.status, u.repos,
                         u.metadata)
    \/ \E g \in GoalIds(Cardinality(DOMAIN db.goals) + 1) :
           /\ AgentUntouched
           /\ StoreRows < MaxStoreRows
           /\ DbCreateGoal(g, "Ship v2", "high", <<>>, EmptyDict)
    \/ \E t \in TaskIds(Cardinality(DOMAIN db.tasks) + 1) :
           /\ AgentUntouched
           /\ StoreRows < MaxStoreRows
           /\ GoalId(1) \in DOMAIN db.goals
           /\ DbCreateTask(t, GoalId(1), "A", "medium", {})
    \/ \E g \in GoalIds(MaxStoreRows), u \in StoreGoalUpdates,
          flushed \in BOOLEAN :
           /\ AgentUntouched
           /\ DbUpdateGoal(g, u.description, u.priority, u.status, u.repos,
                           u.metadata, flushed)
    \/ \E t \in TaskIds(MaxStoreRows), u \in TaskUpdates :
           /\ AgentUntouched
           /\ DbUpdateTask(t, u.status, u.result, u.completed_at)

SpecFrame == Init /\ [][NextFrame]_vars

\* The fields of u that carry a value.
Supplied(u) ==
    {f \in DOMAIN u : IF f \in {"description", "priority", "status"}
                      THEN u[f] # None ELSE u[f] # {}}

\* The column of the store that holds a field of a goal.
Column(f) == IF f = "metadata" THEN "meta_data" ELSE f

\* A successful update_goal of the agent with the fields u leaves alone the
\* fields of the goal that u does not supply, the goal's task list, the other
\* goals, the tasks and the counters.
AgentUpdateGoalFrame ==
    \A g \in GoalIds(MaxFrameGoals), u \in GoalUpdates :
        (ret'.op = "update_goal" /\ ret'.ok
            /\ UpdateGoal(g, u.description, u.priority, u.status, u.repos,
                          u.metadata))
        => /\ DOMAIN goals' = DOMAIN goals
           /\ \A h \in (DOMAIN goals) \ {g} : goals'[h] = goals[h]
           /\ goals'[g].tasks = goals[g].tasks
           /\ \A f \in DOMAIN u \ Supplied(u) : goals'[g][f] = goals[g][f]
           /\ UNCHANGED <<tasks, task_keys, goal_counter, task_counter>>

\* The same for update_goal of the store.
StoreUpdateGoalFrame ==
    \A g \in GoalIds(MaxStoreRows), u \in StoreGoalUpdates,
       flushed \in BOOLEAN :
        (ret'.op = "db.update_goal" /\ ret'.ok
            /\ DbUpdateGoal(g, u.description, u.priority, u.status, u.repos,
                            u.metadata, flushed))
        => /\ DOMAIN db'.goals = DOMAIN db.goals
           /\ \A h \in (DOMAIN db.goals) \ {g} : db'.goals[h] = db.goals[h]
           /\ \A f \in DOMAIN u \ Supplied(u) :
                  db'.goals[g][Column(f)] = db.goals[g][Column(f)]
           /\ db'.tasks = db.tasks

\* And for update_task of the store.
StoreUpdateTaskFrame ==
    \A t \in TaskIds(MaxStoreRows), u \in TaskUpdates :
        (ret'.op = "db.update_task" /\ ret'.ok
            /\ DbUpdateTask(t, u.status, u.result, u.completed_at))
        => /\ DOMAIN db'.tasks = DOMAIN db.tasks
           /\ \A k \in (DOMAIN db.tasks) \ {t} : db'.tasks[k] = db.tasks[k]
           /\ \A f \in (DOMAIN db.tasks[t]) \ Supplied(u) :
                  db'.tasks[t][f] = db.tasks[t][f]
           /\ db'.goals = db.goals

\* C22: a successful update_goal changes nothing but the fields it is given
\* among description, priority, status, repos and metadata: the fields not
\* given, the goal's task list, every task, every other goal and the
\* counters stay as they were; update_goal and update_task of the store
\* change nothing but the columns they are given, of the one row.
C22_UpdateChangesOnlySupplied ==
    [][AgentUpdateGoalFrame /\ StoreUpdateGoalFrame /\ StoreUpdateTaskFrame]_vars

\* An update_goal has succeeded on a goal that has a task, repos and
\* metadata, next to a second goal.
C22_Witness ==
    /\ ret.op = "update_goal" /\ ret.ok
    /\ \E g \in DOMAIN goals :
          /\ goals[g].tasks # <<>>
          /\ goals[g].repos # <<>>
          /\ goals[g].metadata # EmptyDict
          /\ goals[g].description = "Ship v3"
          /\ \E h \in DOMAIN goals : h # g

(***************************************************************************)
(* The other state-changing operations as a thread runs them.              *)
(* update_task_status assigns the status of the task and then checks the   *)
(* goal again; restore_from_cache replaces the goals, then the tasks and   *)
(* the counters; update_goal is taken whole, as the deletions are.         *)
(***************************************************************************)
\* update_task_status up to the persisting of the task.
ThreadUpdateTaskStatus(t, task_id, status) ==
    /\ pc[t] = "idle"
    /\ CanAcquire(t)
    /\ IF task_id \notin DOMAIN tasks \/ status \notin TaskStatuses
       THEN /\ ret' = [op |-> "update_task_status", ok |-> FALSE]
            /\ UNCHANGED <<tasks, cache_full, cache_entries, lock, pc, local>>
       ELSE LET ts == [tasks EXCEPT ![task_id] = WithStatus(@, status)]
                c == _persist_to_cache(Cache, "task", task_id, ts[task_id],
                         get_cache_state(goals, ts, task_keys,
                                         goal_counter, task_counter))
            IN  /\ tasks' = ts
                /\ cache_full' = c.full
                /\ cache_entries' = c.entries
                /\ pc' = [pc EXCEPT ![t] = "recheck"]
                /\ local' = [local EXCEPT ![t] =
                                [NoCall EXCEPT !.op = "update_task_status",
                                               !.a = task_id, !.b = status,
                                               !.id = tasks[task_id].goal_id]]
                /\ lock' = t
                /\ UNCHANGED ret
    /\ scn' = -1
    /\ UNCHANGED <<goals, task_keys, goal_counter, task_counter,
                   cache_available, cache_fail, cache_changes, db, executor,
                   batch, issued_goals, issued_tasks>>

\* The rest of update_task_status: the goal of the task is completed when
\* all its tasks are, and persisted; the call returns and the lock is freed.
ThreadRecheckGoal(t) ==
    /\ pc[t] = "recheck"
    /\ LET goal_id == local[t].id
           held == goal_id \in DOMAIN goals
           gs == IF held /\ AllTasksCompleted(goals, tasks, goal_id)
                 THEN [goals EXCEPT ![goal_id].status = "completed"]
                 ELSE goals
           c == IF ~held THEN Cache
                ELSE _persist_to_cache(Cache, "goal", goal_id, gs[goal_id],
                         get_cache_state(gs, tasks, task_keys,
                                         goal_counter, task_counter))
       IN  /\ goals' = gs
           /\ cache_full' = c.full
           /\ cache_entries' = c.entries
    /\ ret' = [op |-> "update_task_status", ok |-> TRUE]
    /\ pc' = [pc EXCEPT ![t] = "idle"]
    /\ local' = [local EXCEPT ![t] = NoCall]
    /\ lock' = IF lock = t THEN 0 ELSE lock
    /\ scn' = -1
    /\ UNCHANGED <<tasks, task_keys, goal_counter, task_counter,
                   cache_available, cache_fail, cache_changes, db, executor,
                   batch, issued_goals, issued_tasks>>

ThreadUpdateGoal(t, goal_id, description, priority, status) ==
    /\ pc[t] = "idle"
    /\ CanAcquire(t)
    /\ UpdateGoal(goal_id, description, priority, status, {}, {})

\* The states handed to restore_from_cache: an empty one, and one goal.
RestoreStates ==
    << FreshState,
       [goals |-> Put(EmptyDict, GoalId(1), Goal("Ship v2", "high", "planned")),
        tasks |-> EmptyDict, task_keys |-> <<>>,
        goal_counter |-> 1, task_counter |-> 0] >>

\* restore_from_cache(state) up to the assignment of self.goals; n tells
\* which state it is.
ThreadRestore(t, n) ==
    /\ pc[t] = "idle"
    /\ CanAcquire(t)
    /\ goals' = restore_from_cache(RestoreStates[n]).goals
    /\ pc' = [pc EXCEPT ![t] = "restore"]
    /\ local' = [local EXCEPT ![t] =
                    [NoCall EXCEPT !.op = "restore_from_cache", !.n = n]]
    /\ lock' = t
    /\ scn' = -1
    /\ UNCHANGED <<tasks, task_keys, goal_counter, task_counter,
                   cache_available, cache_fail, cache_changes, db, executor,
                   batch, cache_entries, cache_full, ret, issued_goals,
                   issued_tasks>>

\* The rest of restore_from_cache: the tasks and the two counters.
ThreadRestoreRest(t) ==
    /\ pc[t] = "restore"
    /\ LET st == restore_from_cache(RestoreStates[local[t].n])
       IN  /\ tasks' = st.tasks
           /\ task_keys' = st.task_keys
           /\ goal_counter' = st.goal_counter
           /\ task_counter' = st.task_counter
    /\ ret' = [op |-> "restore_from_cache", ok |-> TRUE]
    /\ pc' = [pc EXCEPT ![t] = "idle"]
    /\ local' = [local EXCEPT ![t] = NoCall]
    /\ lock' = IF lock = t THEN 0 ELSE lock
    /\ scn' = -1
    /\ UNCHANGED <<goals, cache_available, cache_fail, cache_changes, db,
                   executor, batch, cache_entries, cache_full, issued_goals,
                   issued_tasks>>

MaxLockGoals == 1
MaxLockTasks == 1

\* Every state-changing operation, called by every thread at any time.
NextLock ==
    \/ \E t \in Threads :
           /\ goal_counter < MaxLockGoals
           /\ Len(issued_goals) < MaxLockGoals
           /\ ThreadCall(t, "create_goal", "Ship v2", "high")
    \/ \E t \in Threads, g \in GoalIds(MaxLockGoals) :
           /\ task_counter < MaxLockTasks
           /\ Len(issued_tasks) < MaxLockTasks
           /\ ThreadCall(t, "break_down_goal", g, <<Subtask("A", None, {})>>)
    \/ \E t \in Threads : ThreadLoadCounter(t)
    \/ \E t \in Threads : ThreadStoreCounter(t)
    \/ \E t \in Threads : ThreadFormatId(t)
    \/ \E t \in Threads : ThreadCreateGoalReturn(t)
    \/ \E t \in Threads : ThreadBreakDownGoalPut(t)
    \/ \E t \in Threads, k \in TaskIds(MaxLockTasks) :
           ThreadUpdateTaskStatus(t, k, "completed")
    \/ \E t \in Threads : ThreadRecheckGoal(t)
    \/ \E t \in Threads, g \in GoalIds(MaxLockGoals) :
           ThreadUpdateGoal(t, g, None, None, "cancelled")
    \/ \E t \in Threads, g \in GoalIds(MaxLockGoals) : ThreadDeleteGoal(t, g)
    \/ \E t \in Threads, k \in TaskIds(MaxLockTasks) : ThreadDeleteTask(t, k)
    \/ \E t \in Threads, n \in DOMAIN RestoreStates : ThreadRestore(t, n)
    \/ \E t \in Threads : ThreadRestoreRest(t)

SpecLock == Init /\ [][NextLock]_vars

\* Thread t is inside the body of an operation.
Inside(t) == pc[t] # "idle"

\* No two threads are inside at once, and the one inside holds the lock.
OneInside ==
    \A t \in Threads :
        Inside(t) => lock = t /\ \A u \in Threads \ {t} : ~Inside(u)

\* While a thread is inside, every step is a step of its own call: its call
\* moves on, and no other thread enters, moves or runs an operation.
NoStepOfAnother ==
    \A t \in Threads :
        Inside(t) => /\ pc'[t] # pc[t]
                     /\ \A u \in Threads \ {t} : pc'[u] = pc[u]

\* C23: at no time are two threads inside the body of a state-changing
\* operation, and from the moment a thread has entered one until it returns
\* no step of another call happens: the allocation of an id, the mutation of
\* the entities and the re-check of the goal of one call are never
\* interleaved with those of another.
C23_SingleWriter == []OneInside /\ [][NoStepOfAnother]_vars

\* A thread stands between the assignment of a task's status and the
\* re-check of the goal, holding the lock, after another operation has
\* cancelled a goal.
C23_Witness ==
    \E t \in Threads :
        /\ pc[t] = "recheck" /\ lock = t
        /\ \E g \in DOMAIN goals : goals[g].status = "cancelled"
        /\ \A u \in Threads \ {t} : pc[u] = "idle"

(***************************************************************************)
(* Goals and the statuses of their tasks, where no update_goal is called.  *)
(***************************************************************************)
\* C24: a goal that owns at least one task and all of whose tasks are
\* completed is completed itself, in every state of the runs in which no
\* caller sets a goal's status: after every update of a task's status, every
\* break-down and every deletion of a task.
C24_CompletedWhenAllTasksAre ==
    \A g \in DOMAIN goals :
        AllOwnedCompleted(tasks, g) => goals[g].status = "completed"

\* C25: where no caller sets a goal's status, a goal that is completed owns
\* at least one task and every task it owns is completed; a task of a
\* completed goal that is moved back to another status takes the goal out
\* of completed.
C25_CompletedOnlyWhileAllTasksAre ==
    \A g \in DOMAIN goals :
        goals[g].status = "completed" => AllOwnedCompleted(tasks, g)

(***************************************************************************)
(* Calls that fail.                                                        *)
(***************************************************************************)
\* C26: a break_down_goal that fails (on a goal that does not exist, on an
\* empty list, on a subtask without a description anywhere in the list)
\* creates no task, appends nothing to a task list, leaves the task counter
\* and leaves every goal's status.
C26_BreakDownAllOrNothing ==
    [][(ret'.op = "break_down_goal" /\ ~ret'.ok)
          => UNCHANGED <<goals, tasks, task_keys, task_counter>>]_vars

\* C27: an update_goal that fails (on a description of blanks, on a priority
\* or a status that is none, whatever valid fields come with it) leaves
\* every field of the goal as it was.
C27_UpdateGoalAllOrNothing ==
    [][(ret'.op = "update_goal" /\ ~ret'.ok) => UNCHANGED goals]_vars

(***************************************************************************)
(* The planner next to the ready queue: the tasks of one goal, with a      *)
(* dependency on the first task or on an id that no task gets, completed   *)
(* one by one.                                                             *)
(***************************************************************************)
MaxAgreeTasks == 2

NextAgree ==
    \/ /\ goal_counter = 0
       /\ CreateGoal("Ship v2", "high")
    \/ \E d \in {{}, {TaskId(1)}, {TaskId(MaxAgreeTasks + 1)}} :
           /\ task_counter < MaxAgreeTasks
           /\ BreakDownGoal(GoalId(1), <<Subtask("A", None, d)>>)
    \/ \E t \in TaskIds(MaxAgreeTasks) : UpdateTaskStatus(t, "completed")
    \/ GenerateExecutionPlan(GoalId(1))
    \/ GetNextTasks(GoalId(1))

SpecAgree == Init /\ [][NextAgree]_vars

\* Every task of the phases before phase k of the plan is completed.
PhasesBeforeCompleted(plan, k) ==
    \A j \in 1..(k - 1) :
        \A t \in Range(plan.execution_phases[j].tasks) :
            tasks[t].status = "completed"

\* C28: when generate_execution_plan has returned the plan of a goal, and
\* the tasks of the phases 1..k-1 are all completed, every pending task of a
\* phase k that carries no warning is among the tasks get_next_tasks returns
\* for the goal in that state.
C28_PlanAgreesWithQueue ==
    PlanReturned =>
        LET plan == ret.plan
            next == get_next_tasks(goals, tasks, task_keys, ret.goal_id)
        IN  \A k \in 1..Len(plan.execution_phases) :
                (~plan.execution_phases[k].warning
                    /\ PhasesBeforeCompleted(plan, k))
                => \A t \in Range(plan.execution_phases[k].tasks) :
                       tasks[t].status = "pending" => t \in Range(next)

\* The tasks of the phases of plan with a number below k.
PlacedBefore(plan, k) ==
    UNION {Range(plan.execution_phases[j].tasks) : j \in 1..(k - 1)}

\* The tasks of goal g that no phase below k holds and whose dependencies
\* are each in a phase below k or no task of the goal.
Extractable(g, plan, k) ==
    {t \in OwnedTasks(tasks, g) \ PlacedBefore(plan, k) :
        InGoalDependencies(g, t) \subseteq PlacedBefore(plan, k)}

\* C29: in a returned plan each phase k that carries no warning holds exactly
\* the tasks of the goal that no earlier phase holds and whose dependencies
\* are each in a phase below k or no task of the goal; phase 1 holds exactly
\* the tasks with no dependency among the goal's tasks.
C29_PhaseIsMaximalLayer ==
    PlanReturned =>
        \A k \in 1..Len(ret.plan.execution_phases) :
            ~ret.plan.execution_phases[k].warning =>
                Range(ret.plan.execution_phases[k].tasks)
                    = Extractable(ret.goal_id, ret.plan, k)

\* The numbers of the phases of plan that hold task t.
PhasesHolding(plan, t) ==
    {k \in 1..Len(plan.execution_phases) :
        \E i \in 1..Len(plan.execution_phases[k].tasks) :
            plan.execution_phases[k].tasks[i] = t}

\* C30: the phases of a returned plan partition the goal's tasks: each task
\* of the goal is in exactly one phase, once, and a phase holds tasks of the
\* goal only; total_tasks is the number of the goal's tasks, total_phases the
\* number of phases; phase i carries the number i; no phase is empty; a goal
\* without tasks gets no phase.
C30_PhasesPartitionTasks ==
    PlanReturned =>
        LET plan == ret.plan
            phases == plan.execution_phases
            owned == OwnedTasks(tasks, ret.goal_id)
        IN  /\ \A t \in owned : Cardinality(PhasesHolding(plan, t)) = 1
            /\ \A k \in 1..Len(phases) :
                   /\ Range(phases[k].tasks) \subseteq owned
                   /\ Len(phases[k].tasks) = Cardinality(Range(phases[k].tasks))
                   /\ phases[k].phase = k
                   /\ phases[k].tasks # <<>>
            /\ plan.total_tasks = Cardinality(owned)
            /\ plan.total_phases = Len(phases)
            /\ owned = {} => phases = <<>>

\* A plan of three tasks in two phases or more, one of them with two tasks.
C30_Witness ==
    /\ PlanReturned
    /\ ret.plan.total_tasks = 3
    /\ ret.plan.total_phases >= 2
    /\ \E k \in 1..ret.plan.total_phases :
           Len(ret.plan.execution_phases[k].tasks) = 2

(***************************************************************************)
(* The ready queue next to deletions: tasks of two goals that depend on    *)
(* the first task or on an id that no task gets, completed and deleted,    *)
(* one by one or with their goal.                                          *)
(***************************************************************************)
MaxDanglingGoals == 2
MaxDanglingTasks == 2

NextDangling ==
    \/ /\ goal_counter < MaxDanglingGoals
       /\ CreateGoal("Ship v2", "high")
    \/ \E g \in GoalIds(MaxDanglingGoals),
          d \in {{}, {TaskId(1)}, {TaskId(MaxDanglingTasks + 1)}} :
           /\ task_counter < MaxDanglingTasks
           /\ BreakDownGoal(g, <<Subtask("A", None, d)>>)
    \/ \E t \in TaskIds(MaxDanglingTasks) : UpdateTaskStatus(t, "completed")
    \/ \E t \in TaskIds(MaxDanglingTasks) : DeleteTask(t)
    \/ \E g \in GoalIds(MaxDanglingGoals) : DeleteGoal(g)
    \/ \E g \in GoalIds(MaxDanglingGoals) \cup {None} : GetNextTasks(g)

SpecDangling == Init /\ [][NextDangling]_vars

\* The dependencies of task t that name no task.
DanglingDependencies(t) == tasks[t].dependencies \ DOMAIN tasks

\* C31: get_next_tasks returns no task with a dependency that names no task,
\* whether the id never named one or its task was deleted, alone or with its
\* goal; a returned task has every dependency existing and completed.
C31_DanglingDependencyBlocks ==
    QueueReturned =>
        \A t \in Range(ret.value) :
            /\ DanglingDependencies(t) = {}
            /\ \A d \in tasks[t].dependencies : tasks[d].status = "completed"

\* get_next_tasks has answered while a pending task in its scope depends on
\* a task that was created and then deleted, and on nothing else.
C31_Witness ==
    /\ QueueReturned
    /\ \E t \in QueueScope :
          /\ tasks[t].status = "pending"
          /\ DanglingDependencies(t) # {}
          /\ DanglingDependencies(t) \subseteq Range(issued_tasks)
          /\ t \notin Range(ret.value)

\* C32: a goal whose status is cancelled keeps that status through every
\* update_task_status and every break_down_goal, the update that completes
\* the last of its tasks included.
C32_CancelledStaysCancelled ==
    [][\A g \in DOMAIN goals :
           (/\ goals[g].status = "cancelled"
            /\ ret'.op \in {"update_task_status", "break_down_goal"})
           => (g \in DOMAIN goals' /\ goals'[g].status = "cancelled")]_vars

(***************************************************************************)
(* Completions from several callers at once: threads that call             *)
(* update_task_status themselves, next to a call of batch_update_tasks     *)
(* whose items the workers of the pool run.                                *)
(***************************************************************************)
MaxRaceTasks == 2

\* The batches of completions: each task alone, and the first two together.
RaceLists ==
    {<<UpdateItem(t, "completed")>> : t \in TaskIds(MaxRaceTasks)}
        \cup {<<UpdateItem(TaskId(1), "completed"),
                UpdateItem(TaskId(2), "completed")>>}

\* No call is under way: no thread is inside update_task_status, no batch
\* is being submitted or collected, and the pool has nothing queued.
Quiescent ==
    /\ \A t \in Threads : pc[t] = "idle"
    /\ batch.pc = "idle"
    /\ executor.work = <<>>

\* The goal gets its tasks before the first call; the calls then come in any
\* order, for tasks that exist and for ids that name none.
NextRace ==
    \/ /\ goal_counter = 0
       /\ CreateGoal("Ship v2", "high")
    \/ /\ task_counter = 0
       /\ ret.op = "create_goal"
       /\ Quiescent
       /\ \E n \in 1..MaxRaceTasks :
              BreakDownGoal(GoalId(1), [i \in 1..n |-> Subtask("A", None, {})])
    \/ \E t \in Threads, k \in TaskIds(MaxRaceTasks) :
           ThreadUpdateTaskStatus(t, k, "completed")
    \/ \E t \in Threads : ThreadRecheckGoal(t)
    \/ \E updates \in RaceLists : BatchUpdateTasks(updates)
    \/ BatchSubmit
    \/ \E k \in DOMAIN executor.work : ExecutorRun(k)
    \/ \E j \in DOMAIN batch.futures : BatchCollect(j)
    \/ BatchReturn

SpecRace == Init /\ [][NextRace]_vars

\* The step with which thread t returns from update_task_status leaves the
\* task of the call completed.
DirectCallKeeps ==
    \A t \in Threads :
        (pc[t] = "recheck" /\ pc'[t] = "idle")
        => tasks'[local[t].a].status = "completed"

\* The step with which batch_update_tasks returns leaves the task of every
\* update it was given completed, when the task exists.
BatchCallKeeps ==
    (batch.pc = "collect" /\ batch'.pc = "idle")
    => \A i \in DOMAIN batch.updates :
           batch.updates[i].task_id \in DOMAIN tasks
           => tasks'[batch.updates[i].task_id].status = "completed"

\* C33: no completion is lost.  The task a returned call completed, directly
\* or as an item of a batch, is completed; and once no call is under way, a
\* goal whose tasks have all been completed is completed, whichever way the
\* calls were interleaved.
C33_NoCompletionLost ==
    /\ [](Quiescent =>
            \A g \in DOMAIN goals :
                AllOwnedCompleted(tasks, g) => goals[g].status = "completed")
    /\ [][DirectCallKeeps /\ BatchCallKeeps]_vars

\* A batch of one update has returned where the goal has two tasks: the other
\* task was completed by another call, and the goal is completed.
C33_Witness ==
    /\ Quiescent
    /\ ret.op = "batch_update_tasks" /\ ret.ok
    /\ ret.results.total = 1
    /\ Len(ret.results.successful) = 1
    /\ Cardinality(OwnedTasks(tasks, GoalId(1))) >= 2
    /\ AllOwnedCompleted(tasks, GoalId(1))
    /\ goals[GoalId(1)].status = "completed"

(***************************************************************************)
(* The pool, worker by worker.  Thread 1 is a caller of its own; the other *)
(* threads are the workers of the pool.  A worker takes the item at the    *)
(* head of the work queue and runs it: update_task_status enters the lock  *)
(* and assigns the status, then takes the lock once more in                *)
(* get_cache_state when it persists, checks the goal again and returns;    *)
(* get_task enters the lock, reads and returns.  The outcome goes to the   *)
(* future of the item.                                                     *)
(***************************************************************************)
PoolWorkers == Threads \ {1}

\* As GetItem, for a batch of reads that submits update_task_status with the
\* status completed.
CompletedItem(task_id, future) ==
    [task_id |-> task_id, status |-> "completed", future |-> future]

GetItem(task_id, future) ==
    [func |-> "get_task", task_id |-> task_id, future |-> future]

IsGetItem(item) == "func" \in DOMAIN item

\* The future of the item is done, with the error its call raised or None.
FutureDone(b, item, error) ==
    IF item.future = 0 THEN b
    ELSE [b EXCEPT !.futures[item.future].done = TRUE,
                   !.futures[item.future].error = error]

\* A worker takes the next item and its call enters the lock.
WorkerEnter(t) ==
    /\ t \in PoolWorkers
    /\ pc[t] = "idle"
    /\ executor.work # <<>>
    /\ CanAcquire(t)
    /\ LET item == Head(executor.work)
       IN  /\ executor' = [executor EXCEPT !.work = Tail(@)]
           /\ IF IsGetItem(item)
              THEN /\ batch' = FutureDone(batch, item,
                                   IF get_task(Cache, item.task_id).ok
                                   THEN None ELSE "Task not found")
                   /\ UNCHANGED <<tasks, cache_full, cache_entries, lock, pc,
                                  local>>
              ELSE IF UpdateError(item) # None
              THEN /\ batch' = FutureDone(batch, item, UpdateError(item))
                   /\ UNCHANGED <<tasks, cache_full, cache_entries, lock, pc,
                                  local>>
              ELSE LET ts == [tasks EXCEPT ![item.task_id] = WithStatus(@, item.status)]
                       c == _persist_to_cache(Cache, "task", item.task_id,
                                ts[item.task_id],
                                get_cache_state(goals, ts, task_keys,
                                                goal_counter, task_counter))
                   IN  /\ tasks' = ts
                       /\ cache_full' = c.full
                       /\ cache_entries' = c.entries
                       /\ pc' = [pc EXCEPT ![t] = "recheck"]
                       /\ local' = [local EXCEPT ![t] =
                                       [NoCall EXCEPT
                                           !.op = "worker",
                                           !.a = item.task_id,
                                           !.b = item.status,
                                           !.n = item.future,
                                           !.id = tasks[item.task_id].goal_id]]
                       /\ lock' = t
                       /\ UNCHANGED batch
    /\ scn' = -1
    /\ UNCHANGED <<goals, task_keys, goal_counter, task_counter,
                   cache_available, cache_fail, cache_changes, db, ret,
                   issued_goals, issued_tasks>>

\* The rest of update_task_status in a worker: the lock is taken again for
\* the snapshot, the goal is checked and persisted, the call returns.
WorkerFinish(t) ==
    /\ t \in PoolWorkers
    /\ pc[t] = "recheck"
    /\ local[t].op = "worker"
    /\ CanAcquire(t)
    /\ LET goal_id == local[t].id
           held == goal_id \in DOMAIN goals
           gs == IF held /\ AllTasksCompleted(goals, tasks, goal_id)
                 THEN [goals EXCEPT ![goal_id].status = "completed"]
                 ELSE goals
           c == IF ~held THEN Cache
                ELSE _persist_to_cache(Cache, "goal", goal_id, gs[goal_id],
                         get_cache_state(gs, tasks, task_keys,
                                         goal_counter, task_counter))
       IN  /\ goals' = gs
           /\ cache_full' = c.full
           /\ cache_entries' = c.entries
    /\ batch' = FutureDone(batch, [future |-> local[t].n], None)
    /\ pc' = [pc EXCEPT ![t] = "idle"]
    /\ local' = [local EXCEPT ![t] = NoCall]
    /\ lock' = IF lock = t THEN 0 ELSE lock
    /\ scn' = -1
    /\ UNCHANGED <<tasks, task_keys, goal_counter, task_counter,
                   cache_available, cache_fail, cache_changes, db, executor,
                   ret, issued_goals, issued_tasks>>

(***************************************************************************)
(* batch_get_tasks: one future per id, then the futures as they complete.  *)
(***************************************************************************)
BatchGetTasks(task_ids) ==
    /\ batch.pc = "idle"
    /\ batch' = [NoBatch EXCEPT !.pc = IF task_ids = <<>> THEN "get_collect"
                                       ELSE "get_submit",
                                !.updates = task_ids, !.i = 1]
    /\ UNCHANGED <<goals, tasks, task_keys, goal_counter, task_counter,
                   cache_available, cache_fail, cache_changes, db, cache_entries,
                   cache_full, ret, issued_goals, issued_tasks, scn, lock, pc,
                   local, executor>>

\* One turn of the loop over the ids; submit raises once the pool is shut
\* down.
BatchGetSubmit ==
    /\ batch.pc = "get_submit"
    /\ LET task_id == batch.updates[batch.i]
           after == IF batch.i = Len(batch.updates) THEN "get_collect"
                    ELSE "get_submit"
       IN  IF executor.state # "running"
           THEN /\ batch' = NoBatch
                /\ executor' = [executor EXCEPT
                       !.work = [k \in 1..Len(@) |-> [@[k] EXCEPT !.future = 0]]]
                /\ ret' = [op |-> "batch_get_tasks", ok |-> FALSE,
                           error |-> "cannot schedule new futures after shutdown"]
           ELSE /\ batch' = [batch EXCEPT
                       !.futures = Append(@, [task_id |-> task_id,
                                              done |-> FALSE, error |-> None]),
                       !.i = @ + 1, !.pc = after]
                /\ executor' = [executor EXCEPT
                       !.work = Append(@, GetItem(task_id, Len(batch.futures) + 1))]
                /\ UNCHANGED ret
    /\ UNCHANGED <<goals, tasks, task_keys, goal_counter, task_counter,
                   cache_available, cache_fail, cache_changes, db, cache_entries,
                   cache_full, issued_goals, issued_tasks, scn, lock, pc, local>>

\* One turn of the loop over as_completed: the task goes to "tasks", the id
\* of a ValueError to "not_found".
BatchGetCollect(j) ==
    /\ batch.pc = "get_collect"
    /\ j \in (1..Len(batch.futures)) \ batch.collected
    /\ batch.futures[j].done
    /\ LET future == batch.futures[j]
       IN  batch' = [batch EXCEPT
               !.collected = @ \cup {j},
               !.successful = IF future.error # None THEN @
                              ELSE Append(@, future.task_id),
               !.failed = IF future.error = None THEN @
                          ELSE Append(@, future.task_id)]
    /\ UNCHANGED <<goals, tasks, task_keys, goal_counter, task_counter,
                   cache_available, cache_fail, cache_changes, db, cache_entries,
                   cache_full, ret, issued_goals, issued_tasks, scn, lock, pc,
                   local, executor>>

BatchGetReturn ==
    /\ batch.pc = "get_collect"
    /\ AllCollected
    /\ ret' = [op |-> "batch_get_tasks", ok |-> TRUE,
               results |-> [tasks |-> batch.successful,
                            not_found |-> batch.failed,
                            total |-> Len(batch.updates)]]
    /\ batch' = NoBatch
    /\ UNCHANGED <<goals, tasks, task_keys, goal_counter, task_counter,
                   cache_available, cache_fail, cache_changes, db, cache_entries,
                   cache_full, issued_goals, issued_tasks, scn, lock, pc,
                   local, executor>>

(***************************************************************************)
(* Batches of both kinds, one after the other, run by the workers of the   *)
(* pool while thread 1 calls update_task_status itself, again and again.   *)
(* The threads are scheduled fairly: a step that stays possible is taken,  *)
(* and a thread that finds the lock free again and again gets it.          *)
(***************************************************************************)
MaxLiveTasks == 2

\* Batches of updates: one item, more items than the smallest pool has
\* workers, and an item that fails next to one that does not.
LiveUpdateLists ==
    { <<UpdateItem(TaskId(1), "completed")>>,
      <<UpdateItem(TaskId(1), "in_progress"),
        UpdateItem(TaskId(MaxLiveTasks), "completed")>>,
      <<UpdateItem(TaskId(MaxLiveTasks + 1), "completed"),
        UpdateItem(TaskId(1), "completed")>> }

LiveGetLists ==
    { <<>>, <<TaskId(1)>>, <<TaskId(MaxLiveTasks + 1), TaskId(1)>> }

\* The re-check of the caller's own update_task_status takes the lock again
\* for the snapshot.
CallerRecheck(t) ==
    /\ local[t].op = "update_task_status"
    /\ CanAcquire(t)
    /\ ThreadRecheckGoal(t)

NextLive ==
    \/ /\ goal_counter = 0
       /\ CreateGoal("Ship v2", "high")
    \/ /\ task_counter = 0
       /\ ret.op = "create_goal"
       /\ Quiescent
       /\ BreakDownGoal(GoalId(1),
              [i \in 1..MaxLiveTasks |-> Subtask("A", None, {})])
    \/ \E k \in TaskIds(MaxLiveTasks) :
           ThreadUpdateTaskStatus(1, k, "completed")
    \/ CallerRecheck(1)
    \/ \E updates \in LiveUpdateLists : BatchUpdateTasks(updates)
    \/ BatchSubmit
    \/ \E j \in DOMAIN batch.futures : BatchCollect(j)
    \/ BatchReturn
    \/ \E task_ids \in LiveGetLists : BatchGetTasks(task_ids)
    \/ BatchGetSubmit
    \/ \E j \in DOMAIN batch.futures : BatchGetCollect(j)
    \/ BatchGetReturn
    \/ \E t \in PoolWorkers : WorkerEnter(t)
    \/ \E t \in PoolWorkers : WorkerFinish(t)

FairScheduling ==
    /\ WF_vars(CallerRecheck(1))
    /\ WF_vars(BatchSubmit)
    /\ WF_vars(\E j \in DOMAIN batch.futures : BatchCollect(j))
    /\ WF_vars(BatchReturn)
    /\ WF_vars(BatchGetSubmit)
    /\ WF_vars(\E j \in DOMAIN batch.futures : BatchGetCollect(j))
    /\ WF_vars(BatchGetReturn)
    /\ \A t \in PoolWorkers : SF_vars(WorkerEnter(t))
    /\ \A t \in PoolWorkers : WF_vars(WorkerFinish(t))

SpecLive == Init /\ [][NextLive]_vars /\ FairScheduling

\* C34: under fair scheduling every call of batch_update_tasks and of
\* batch_get_tasks returns, whatever the number of its items and of the
\* workers and whatever the other caller does; the work queue empties; and
\* a thread that has entered an operation leaves it, the lock it takes a
\* second time on the way being no obstacle.
C34_BatchesReturn ==
    /\ (batch.pc # "idle") ~> (batch.pc = "idle")
    /\ (executor.work # <<>>) ~> (executor.work = <<>>)
    /\ \A t \in Threads : (pc[t] # "idle") ~> (pc[t] = "idle")

\* A batch of two updates has returned with both done, from a pool with
\* fewer workers than the batch has items when the pool has one worker.
C34_Witness ==
    /\ ret.op = "batch_update_tasks" /\ ret.ok
    /\ ret.results.total = 2
    /\ Len(ret.results.successful) = 2
    /\ batch.pc = "idle"
    /\ goals[GoalId(1)].status # "completed"

MutatingOperations ==
    {"create_goal", "break_down_goal", "update_task_status", "update_goal",
     "delete_task", "delete_goal"}

\* The goals and the tasks the step has created or changed.
TouchedGoals ==
    {g \in DOMAIN goals' : g \notin DOMAIN goals \/ goals'[g] # goals[g]}

TouchedTasks ==
    {t \in DOMAIN tasks' : t \notin DOMAIN tasks \/ tasks'[t] # tasks[t]}

\* The entry of the entity under its key is its authoritative value.
EntryIs(key, value) ==
    key \in DOMAIN cache_entries' /\ cache_entries'[key] = value

\* C35: while the cache has answered since the start, after every successful
\* mutating operation the entry of each goal and task the operation created
\* or changed holds the entity as it is, the snapshot under state:full holds
\* the goals, the tasks and the counters as they are, and the goals and tasks
\* the operation deleted have no entry.
C35_CacheFollowsWrites ==
    [][(cache_changes' = 0 /\ ret'.op \in MutatingOperations /\ ret'.ok)
       => /\ \A g \in TouchedGoals :
                 EntryIs(get_cache_key("goal", g), goals'[g])
          /\ \A t \in TouchedTasks :
                 EntryIs(get_cache_key("task", t), tasks'[t])
          /\ cache_full' = {get_cache_state(goals', tasks', task_keys',
                                            goal_counter', task_counter')}
          /\ \A g \in (DOMAIN goals) \ (DOMAIN goals') :
                 get_cache_key("goal", g) \notin DOMAIN cache_entries'
          /\ \A t \in (DOMAIN tasks) \ (DOMAIN tasks') :
                 get_cache_key("task", t) \notin DOMAIN cache_entries'
      ]_vars


\* delete_task has just removed one of two tasks with the cache answering:
\* the task has no entry any more, the other task and the goal have theirs,
\* and the snapshot holds the state as it is.
C35_Witness ==
    /\ ret.op = "delete_task" /\ ret.ok
    /\ cache_available /\ cache_changes = 0
    /\ \E t \in Range(issued_tasks) \ DOMAIN tasks :
           get_cache_key("task", t) \notin DOMAIN cache_entries
    /\ \E t \in DOMAIN tasks :
           /\ cache_entries[get_cache_key("task", t)] = tasks[t]
           /\ tasks[t].goal_id \in DOMAIN goals
           /\ cache_entries[get_cache_key("goal", tasks[t].goal_id)]
                  = goals[tasks[t].goal_id]
    /\ cache_full = {get_cache_state(goals, tasks, task_keys,
                                     goal_counter, task_counter)}


\* C36: a restart that follows a mutating operation that returned with
\* success recovers the goals, the tasks and the counters that operation
\* left, whether the cache answered or not and whatever the data directory
\* holds at start-up.
C36_RestartRecoversAcknowledged ==
    [][(ret.op \in MutatingOperations /\ ret.ok /\ ret'.op = "restart")
       => UNCHANGED <<goals, tasks, goal_counter, task_counter>>]_vars


(***************************************************************************)
(* The tasks of one goal moved through every status, in any order, and    *)
(* given a status that is none.                                            *)
(***************************************************************************)
MaxStampTasks == 2

NextStamp ==
    \/ /\ goal_counter = 0
       /\ CreateGoal("Ship v2", "high")
    \/ /\ task_counter < MaxStampTasks
       /\ BreakDownGoal(GoalId(1), <<Subtask("A", None, {})>>)
    \/ \E t \in TaskIds(MaxStampTasks), st \in TaskStatuses \cup {"done"} :
           UpdateTaskStatus(t, st)

SpecStamp == Init /\ [][NextStamp]_vars

\* A task is created without completed_at, and the completed_at of a task
\* changes only in a step that leaves the task completed and stamped.
StampedOnlyByCompletion ==
    /\ \A t \in (DOMAIN tasks') \ (DOMAIN tasks) : tasks'[t].completed_at = {}
    /\ \A t \in (DOMAIN tasks') \cap (DOMAIN tasks) :
           tasks'[t].completed_at # tasks[t].completed_at
           => /\ tasks'[t].status = "completed"
              /\ tasks'[t].completed_at # {}

\* C37: a task has no completed_at from its creation until an
\* update_task_status sets it to completed; every completed task has one;
\* and an update to another status neither sets nor changes it.
C37_StampedOnCompletionOnly ==
    /\ [](\A t \in DOMAIN tasks :
              tasks[t].status = "completed" => tasks[t].completed_at # {})
    /\ [][StampedOnlyByCompletion]_vars

\* A task that was completed and then set to in_progress keeps its stamp,
\* next to a task that was set to failed and never got one.
C37_Witness ==
    /\ ret.op = "update_task_status" /\ ret.ok
    /\ \E t \in DOMAIN tasks :
           tasks[t].status = "in_progress" /\ tasks[t].completed_at # {}
    /\ \E t \in DOMAIN tasks :
           tasks[t].status = "failed" /\ tasks[t].completed_at = {}


\* The statuses update_task_status is specified to take.
SpecifiedTaskStatuses ==
    {"pending", "in_progress", "completed", "failed", "blocked"}

\* C38: update_task_status with an id that names no task, or with a status
\* that is none of pending, in_progress, completed, failed, blocked, fails,
\* and leaves every task with all its fields, every goal and the two
\* counters as they were.
C38_RejectedUpdateChangesNothing ==
    [][\A t \in TaskIds(MaxStampTasks),
          st \in SpecifiedTaskStatuses \cup {"done"} :
           (/\ t \notin DOMAIN tasks \/ st \notin SpecifiedTaskStatuses
            /\ ret'.op = "update_task_status"
            /\ UpdateTaskStatus(t, st))
           => /\ ~ret'.ok
              /\ UNCHANGED <<goals, tasks, task_keys, goal_counter,
                             task_counter>>]_vars

\* update_task_status has just failed while a task is completed and stamped
\* and another is still pending.
C38_Witness ==
    /\ ret.op = "update_task_status" /\ ~ret.ok
    /\ \E t \in DOMAIN tasks :
           tasks[t].status = "completed" /\ tasks[t].completed_at # {}
    /\ \E t \in DOMAIN tasks : tasks[t].status = "pending"

(***************************************************************************)
(* list_goals and the cache status                                         *)
(***************************************************************************)
\* self.goals.values(): the goals in the order of their creation.
GoalValues(gs, gc) ==
    LET ids == SelectSeq([i \in 1..gc |-> GoalId(i)],
                         LAMBDA g : g \in DOMAIN gs)
    IN  [i \in 1..Len(ids) |-> gs[ids[i]]]

\* list_goals: a filter that is given and valid is applied; one that is not
\* valid is logged and left out.
list_goals(gs, gc, status, priority) ==
    LET all == GoalValues(gs, gc)
        by_status == IF status \in {None, ""} \/ status \notin GoalStatuses
                     THEN all
                     ELSE SelectSeq(all, LAMBDA g : g.status = status)
    IN  IF priority \in {None, ""} \/ priority \notin Priorities
        THEN by_status
        ELSE SelectSeq(by_status, LAMBDA g : g.priority = priority)

\* The tool: the list, its length and whether the cache answers.
ListGoals(status, priority) ==
    /\ LET listed == list_goals(goals, goal_counter, status, priority)
       IN  ret' = [op |-> "list_goals", ok |-> TRUE, goals |-> listed,
                   count |-> Len(listed), status |-> status,
                   priority |-> priority,
                   cache_enabled |-> is_available(Cache)]
    /\ UNCHANGED <<goals, tasks, task_keys, goal_counter, task_counter,
                   cache_available, cache_fail, cache_changes, db, executor,
                   batch, cache_entries, cache_full, issued_goals,
                   issued_tasks, scn, lock, pc, local>>

\* get_cache_status: the sizes and the counters of get_cache_state, and
\* whether the cache answers.
GetCacheStatus ==
    /\ LET state == get_cache_state(goals, tasks, task_keys, goal_counter,
                                    task_counter)
       IN  ret' = [op |-> "get_cache_status", ok |-> TRUE,
                   available |-> is_available(Cache),
                   current_state |->
                       [goals |-> Cardinality(DOMAIN state.goals),
                        tasks |-> Cardinality(DOMAIN state.tasks),
                        goal_counter |-> state.goal_counter,
                        task_counter |-> state.task_counter]]
    /\ UNCHANGED <<goals, tasks, task_keys, goal_counter, task_counter,
                   cache_available, cache_fail, cache_changes, db, executor,
                   batch, cache_entries, cache_full, issued_goals,
                   issued_tasks, scn, lock, pc, local>>

(***************************************************************************)
(* The operations that read, between the ones that write: a goal of either *)
(* priority, tasks that get completed, and every read for the ids that     *)
(* exist and for one that does not.  The caller writes between two batches *)
(* of reads, not during one.                                               *)
(***************************************************************************)
MaxReadGoals == 1
MaxReadTasks == 2

ReadGetLists ==
    { <<>>, <<TaskId(1)>>, <<TaskId(MaxReadTasks + 1), TaskId(1)>> }

NextReads ==
    \/ \E p \in {"high", "low"} :
           /\ goal_counter < MaxReadGoals
           /\ Quiescent
           /\ CreateGoal("Ship v2", p)
    \/ \E g \in GoalIds(MaxReadGoals) :
           /\ task_counter < MaxReadTasks
           /\ Quiescent
           /\ BreakDownGoal(g, <<Subtask("A", None, {})>>)
    \/ \E t \in TaskIds(MaxReadTasks) :
           /\ Quiescent
           /\ UpdateTaskStatus(t, "completed")
    \/ \E g \in GoalIds(MaxReadGoals + 1) : GetGoal(g)
    \/ \E st \in {None, "completed", "archived"}, p \in {None, "high", "urgent"} :
           ListGoals(st, p)
    \/ \E t \in TaskIds(MaxReadTasks + 1) : GetTask(t)
    \/ \E g \in GoalIds(MaxReadGoals + 1) \cup {None} : GetNextTasks(g)
    \/ \E g \in GoalIds(MaxReadGoals + 1) : GenerateExecutionPlan(g)
    \/ GetCacheStatus
    \/ \E task_ids \in ReadGetLists : BatchGetTasks(task_ids)
    \/ BatchGetSubmit
    \/ \E t \in PoolWorkers : WorkerEnter(t)
    \/ \E j \in 1..(MaxReadTasks + 1) : BatchGetCollect(j)
    \/ BatchGetReturn
    \/ /\ goal_counter = MaxReadGoals
       /\ Shutdown

SpecReads == Init /\ [][NextReads]_vars

ReadOperations ==
    {"get_goal", "list_goals", "get_task", "get_next_tasks",
     "generate_execution_plan", "batch_get_tasks", "get_cache_status"}

\* A batch of reads is under way, or its items are.
BatchOfReads ==
    \/ batch.pc \in {"get_submit", "get_collect"}
    \/ \E k \in 1..Len(executor.work) : IsGetItem(executor.work[k])

\* C39: a step that ends with the answer of a read operation, a success or
\* a failure, and every step taken while a batch_get_tasks call or one of
\* its items is under way, leaves the goals, the tasks with their statuses,
\* the order of the tasks and both id counters as they were.
C39_ReadsChangeNothing ==
    [][(ret'.op \in ReadOperations \/ BatchOfReads \/ batch'.pc # "idle")
          => UNCHANGED <<goals, tasks, task_keys, goal_counter, task_counter>>]_vars

\* A batch_get_tasks call has returned one task it found and one id it did
\* not, with a completed task and a completed goal in the state it read.
C39_Witness ==
    /\ ret.op = "batch_get_tasks"
    /\ ret.ok
    /\ ret.results.tasks # <<>>
    /\ ret.results.not_found # <<>>
    /\ \E t \in DOMAIN tasks : tasks[t].status = "completed"
    /\ \E g \in DOMAIN goals : goals[g].status = "completed"

(***************************************************************************)
(* The values a priority and a status take.  Goals and subtasks come with  *)
(* a priority that is valid, invalid or left out, updates with a status    *)
(* that is valid or not, and a session may begin with restore_from_cache   *)
(* of a state the agent saved or of one written elsewhere.                 *)
(***************************************************************************)
\* restore_state_from_cache: the goals, the tasks and the counters of the
\* state given replace the ones of the agent; nothing is persisted.
RestoreFromCache(state) ==
    LET st == restore_from_cache(state)
    IN  /\ goals' = st.goals
        /\ tasks' = st.tasks
        /\ task_keys' = st.task_keys
        /\ goal_counter' = st.goal_counter
        /\ task_counter' = st.task_counter
        /\ ret' = [op |-> "restore_from_cache", ok |-> TRUE]
        /\ scn' = -1
        /\ UNCHANGED <<cache_available, cache_fail, cache_changes, db,
                       executor, batch, cache_entries, cache_full,
                       issued_goals, issued_tasks, lock, pc, local>>

\* A state as json.loads returns it for a text written by hand: a goal and
\* its task under a priority and statuses of another tool.
ForeignState ==
    [goals |-> Put(EmptyDict, GoalId(1),
                   [Goal("Ship v2", "urgent", "archived") EXCEPT
                       !.tasks = <<TaskId(1)>>]),
     tasks |-> Put(EmptyDict, TaskId(1),
                   Task(GoalId(1), "A", "done", "urgent", {})),
     task_keys |-> <<TaskId(1)>>,
     goal_counter |-> 1, task_counter |-> 1]

MaxDomainGoals == 1
MaxDomainTasks == 2

NextDomains ==
    \/ \E p \in {"high", "urgent"} :
           /\ goal_counter < MaxDomainGoals
           /\ Len(issued_goals) < MaxDomainGoals
           /\ CreateGoal("Ship v2", p)
    \/ \E g \in GoalIds(MaxDomainGoals), p \in {None, "low", "urgent"} :
           /\ task_counter < MaxDomainTasks
           /\ Len(issued_tasks) < MaxDomainTasks
           /\ BreakDownGoal(g, <<Subtask("A", p, {})>>)
    \/ \E t \in TaskIds(MaxDomainTasks), st \in TaskStatuses \cup {"done"} :
           UpdateTaskStatus(t, st)
    \/ \E g \in GoalIds(MaxDomainGoals), p \in {None, "low", "urgent"},
          st \in {None, "cancelled", "archived"} :
           UpdateGoal(g, None, p, st, {}, {})
    \/ \E t \in TaskIds(MaxDomainTasks) : DeleteTask(t)
    \/ \E state \in {FreshState, ForeignState} :
           /\ ret.op = "init"
           /\ RestoreFromCache(state)

SpecDomains == Init /\ [][NextDomains]_vars

SpecifiedPriorities == {"high", "medium", "low"}
SpecifiedGoalStatuses == {"planned", "in_progress", "completed", "cancelled"}

\* Every priority and every status held is one of the listed values.
ValuesInDomain ==
    /\ \A g \in DOMAIN goals :
           /\ goals[g].priority \in SpecifiedPriorities
           /\ goals[g].status \in SpecifiedGoalStatuses
    /\ \A t \in DOMAIN tasks :
           /\ tasks[t].priority \in SpecifiedPriorities
           /\ tasks[t].status \in SpecifiedTaskStatuses

\* break_down_goal of an existing goal with one described subtask succeeds
\* and stores the priority given, or medium for one that is not valid.
InvalidPriorityStoredAsMedium ==
    \A g \in GoalIds(MaxDomainGoals), p \in {None, "low", "urgent"} :
        (/\ g \in DOMAIN goals
         /\ ret'.op = "break_down_goal"
         /\ BreakDownGoal(g, <<Subtask("A", p, {})>>))
            => /\ ret'.ok
               /\ TaskId(task_counter') \in DOMAIN tasks' \ DOMAIN tasks
               /\ tasks'[TaskId(task_counter')].priority =
                      IF p \in SpecifiedPriorities THEN p ELSE "medium"

\* The status of a task that stays differs after a step only when the step
\* is an update_task_status.
StatusChangedByUpdateOnly ==
    \A t \in DOMAIN tasks \cap DOMAIN tasks' :
        tasks'[t].status # tasks[t].status => ret'.op = "update_task_status"

\* C40: in every reachable state every goal's and every task's priority is
\* one of high, medium, low, every goal's status one of planned,
\* in_progress, completed, cancelled and every task's status one of pending,
\* in_progress, completed, failed, blocked; break_down_goal stores medium
\* for a subtask with an invalid priority instead of failing; and the status
\* of a task changes only in an update_task_status.
C40_ValuesStayInDomain ==
    /\ []ValuesInDomain
    /\ [][InvalidPriorityStoredAsMedium /\ StatusChangedByUpdateOnly]_vars

=============================================================================
